---------------------------- MODULE Spec2Model ----------------------------
(***************************************************************************)
(* VA-CRM backend: the Express route handlers over the Prisma tables       *)
(* (students, courses, enrollments, payments).                             *)
(*                                                                         *)
(* Money is stored as a decimal with two places (a whole number of cents   *)
(* here) and every handler converts it with parseFloat and adds it up as   *)
(* an IEEE-754 double.  The double arithmetic is modelled exactly: a       *)
(* double x is the pair [c, r] with                                        *)
(*        x = (c * 2^FracBits + r) / (Scale * 2^FracBits)                  *)
(* i.e. c is the decimal value in cents the double stands next to and r    *)
(* is its (tiny) distance from it, in units of 1/(Scale * 2^FracBits).     *)
(***************************************************************************)
EXTENDS Integers, Sequences, FiniteSets, TLC

(***************************************************************************)
(* IEEE-754 double precision, round to nearest, ties to even.              *)
(***************************************************************************)
Scale == 100        \* cents per unit: amounts have two decimal places
MantissaBits == 53  \* significand of a JS Number
FracBits == 59      \* every double >= 0.01 is a multiple of 2^-59
MinExponent == MantissaBits - 1 - FracBits  \* 0.01 lies in [2^-7, 2^-6)

RECURSIVE Pow2(_)
Pow2(n) == IF n = 0 THEN 1 ELSE 2 * Pow2(n - 1)

RECURSIVE Pow2Mod(_, _)
Pow2Mod(n, m) == IF n = 0 THEN 1 % m ELSE (2 * Pow2Mod(n - 1, m)) % m

\* the double [c, r] is at least 2^e (e may be negative)
AtLeastPow2(x, e) ==
    IF e >= 0
    THEN x.c > Scale * Pow2(e) \/ (x.c = Scale * Pow2(e) /\ x.r >= 0)
    ELSE x.c * Pow2(-e) > Scale \/ (x.c * Pow2(-e) = Scale /\ x.r >= 0)

\* the binary exponent e of a positive value: 2^e <= x < 2^(e+1), from -7 up
RECURSIVE ExponentFrom(_, _)
ExponentFrom(x, e) == IF AtLeastPow2(x, e + 1) THEN ExponentFrom(x, e + 1) ELSE e

Exponent(x) == ExponentFrom(x, MinExponent)

\* Round an exact positive value [c, r] to the nearest double, ties to
\* even.  A is the value in units of 1/(Scale * 2^FracBits); the doubles of
\* the binade of x are the multiples of G = Scale * ulp in these units.
\* Below 2^(MinExponent) only sums and differences of doubles occur, which
\* are multiples of 2^-FracBits with fewer than 53 bits: exact.
RoundNearestEven(x) ==
    IF ~AtLeastPow2(x, MinExponent)
    THEN x
    ELSE LET e    == Exponent(x)
             U    == Pow2(e + 1 - MantissaBits + FracBits)   \* ulp, in 2^-FracBits
             G    == Scale * U
             A2G  == ((x.c % (2 * G)) * Pow2Mod(FracBits, 2 * G) + x.r) % (2 * G)
             low  == A2G % G
             odd  == A2G >= G
             up   == 2 * low > G \/ (2 * low = G /\ odd)
         IN  IF low = 0 THEN x
             ELSE IF up THEN [c |-> x.c, r |-> x.r + (G - low)]
             ELSE [c |-> x.c, r |-> x.r - low]

\* x < 0, -x
IsNegative(x) == x.c < 0 \/ (x.c = 0 /\ x.r < 0)
Negate(x) == [c |-> -x.c, r |-> -x.r]

\* rounding is symmetric about zero
RoundToDouble(x) ==
    IF IsNegative(x) THEN Negate(RoundNearestEven(Negate(x))) ELSE RoundNearestEven(x)

Zero == [c |-> 0, r |-> 0]

\* parseFloat of a stored decimal of `cents` cents
parseFloat(cents) == RoundToDouble([c |-> cents, r |-> 0])

\* x + y on doubles
FAdd(x, y) == RoundToDouble([c |-> x.c + y.c, r |-> x.r + y.r])

\* x > y, x >= y on doubles
FGt(x, y) == x.c > y.c \/ (x.c = y.c /\ x.r > y.r)
FGe(x, y) == x.c > y.c \/ (x.c = y.c /\ x.r >= y.r)

\* Math.max(0, x - y) on doubles
FMax0Sub(x, y) ==
    IF FGe(y, x) THEN Zero
    ELSE RoundToDouble([c |-> x.c - y.c, r |-> x.r - y.r])

(***************************************************************************)
(* Text: a string is the sequence of its characters.                       *)
(***************************************************************************)
UpperCase == <<"A", "B", "M">>
LowerCase == <<"a", "b", "m">>

\* String.prototype.toLowerCase
LowerOf(ch) ==
    IF \E i \in DOMAIN UpperCase : UpperCase[i] = ch
    THEN LowerCase[CHOOSE i \in DOMAIN UpperCase : UpperCase[i] = ch]
    ELSE ch

toLowerCase(str) == [i \in 1..Len(str) |-> LowerOf(str[i])]

\* String.prototype.trim
RECURSIVE TrimStart(_)
TrimStart(str) ==
    IF str # <<>> /\ Head(str) = " " THEN TrimStart(Tail(str)) ELSE str

RECURSIVE TrimEnd(_)
TrimEnd(str) ==
    IF str # <<>> /\ str[Len(str)] = " "
    THEN TrimEnd(SubSeq(str, 1, Len(str) - 1))
    ELSE str

trim(str) == TrimEnd(TrimStart(str))

\* String.prototype.includes, for a single character
includes(str, ch) == \E i \in 1..Len(str) : str[i] = ch

\* { equals: value, mode: 'insensitive' }
EqualsInsensitive(a, b) == toLowerCase(a) = toLowerCase(b)

(***************************************************************************)
(* Bounds of the model and the request inputs.                             *)
(***************************************************************************)
MaxStudents == 2
MaxCourses == 2
LedgerCourses == 1  \* courses in the runs that follow the money
MaxEnrollments == 2
MaxPayments == 2
MaxClients == 2   \* POST /payments requests in flight at once
MaxRows == 2      \* rows of an uploaded CSV file
MaxListed == 3    \* payments in the table a client pages through
MaxLimit == 2     \* the limit query parameter

StudentIds == 1..MaxStudents
CourseIds == 1..MaxCourses
LedgerCourseIds == 1..LedgerCourses
EnrollmentIds == 1..MaxEnrollments
PaymentIds == 1..MaxPayments
Clients == 1..MaxClients

None == 0     \* undefined / null: no id, no amount, an absent payload
Absent == ""  \* an absent string field
Invalid == -1 \* an amount that is not a number, such as "abc"
NegativeAmount == -6  \* the amount -0.06, in cents

Emails == {<<"a", "@", "x">>, <<"b", "@", "x">>}
CourseNames == {<<"M", "a">>, <<"m", "a">>, <<"M", "a", " ">>, <<"A", "b">>}
LedgerNames == {<<"M", "a">>}
Nrics == {"S1", "S2"}
\* cents: 0.01 + 0.01 is 0.02 exactly, 0.01 + 0.06 rounds below 0.07
Amounts == {1, 6}
Prices == {2, 7}
Statuses == {"ACTIVE", "COMPLETED", "CANCELLED", "SUSPENDED"}
\* the statuses requests carry: no handler tells SUSPENDED from CANCELLED
ReqStatuses == {"ACTIVE", "COMPLETED", "CANCELLED"}

(***************************************************************************)
(* The database tables (id -> row), the POST /payments requests in flight  *)
(* (each handler's position between two awaits and its locals), the CSV    *)
(* preview in progress, the list being paged through, the full-create      *)
(* transactions in flight and the state of the Students page in a browser. *)
(***************************************************************************)
VARIABLES students, courses, enrollments, payments, reqs, csv, listing, txs, ui

vars == <<students, courses, enrollments, payments, reqs, csv, listing, txs, ui>>

\* a new cuid: the model names it by the smallest id not in the table
FreshId(table, Ids) ==
    LET free == (1..(Cardinality(Ids \cup DOMAIN table) + 1)) \ DOMAIN table
    IN  CHOOSE i \in free : \A j \in free : i <= j

HasRoom(table, Ids) == Ids \ DOMAIN table # {}

Insert(table, id, row) == [i \in DOMAIN table \cup {id} |-> IF i = id THEN row ELSE table[i]]

Remove(table, id) == [i \in DOMAIN table \ {id} |-> table[i]]

(***************************************************************************)
(* What a handler does with a request: the response it sends and the       *)
(* tables as it leaves them.                                               *)
(***************************************************************************)
\* res.status(status).json({ error }) without a write
Reject(status, error) ==
    [status |-> status, error |-> error, students |-> students, courses |-> courses,
     enrollments |-> enrollments, payments |-> payments]

\* res.status(status).json(record) after the writes
Done(status, studs, crs, enrs, pays) ==
    [status |-> status, error |-> "", students |-> studs, courses |-> crs,
     enrollments |-> enrs, payments |-> pays]

Apply(result) ==
    /\ students' = result.students
    /\ courses' = result.courses
    /\ enrollments' = result.enrollments
    /\ payments' = result.payments
    /\ UNCHANGED <<reqs, csv, listing, txs, ui>>

(***************************************************************************)
(* Balance computation, as every site repeats it.                          *)
(***************************************************************************)
\* prisma.payment.findMany({ where: { enrollmentId } })
PaymentsOf(pays, enrollmentId) == {p \in DOMAIN pays : pays[p].enrollmentId = enrollmentId}

\* ids.reduce((sum, payment) => sum + parseFloat(payment.amount), 0), ascending ids
RECURSIVE ReduceSum(_, _, _)
ReduceSum(pays, ids, sum) ==
    IF ids = {} THEN sum
    ELSE LET p == CHOOSE i \in ids : \A j \in ids : i <= j
         IN  ReduceSum(pays, ids \ {p}, FAdd(sum, parseFloat(pays[p].amount)))

TotalPaid(pays, enrollmentId) == ReduceSum(pays, PaymentsOf(pays, enrollmentId), Zero)

\* the same sum in exact decimal arithmetic (cents)
RECURSIVE SumCents(_, _)
SumCents(pays, ids) ==
    IF ids = {} THEN 0
    ELSE LET p == CHOOSE i \in ids : TRUE
         IN  pays[p].amount + SumCents(pays, ids \ {p})

PaidCents(pays, enrollmentId) == SumCents(pays, PaymentsOf(pays, enrollmentId))

PriceCents(enrollmentId) == courses[enrollments[enrollmentId].courseId].price

\* no request of this client is in flight
Idle == [pc |-> "idle", studentId |-> None, enrollmentId |-> None, amount |-> 0,
         coursePrice |-> Zero, totalPaid |-> Zero, status |-> 0, error |-> ""]

\* no CSV upload is being parsed
NoUpload == [pc |-> "idle", file |-> FALSE, rows |-> <<>>, next |-> 1,
             results |-> <<>>, errors |-> <<>>, response |-> [status |-> 0]]

\* no list is being paged through
NoListing ==
    [pc |-> "idle", studentId |-> None, startDate |-> None, endDate |-> None,
     limit |-> 0, total |-> 0, pages |-> 0, data |-> <<>>]

\* a full-create request that has not arrived: its payload, its position in
\* the transaction body, what its lookup found (dup), the rows it has written
\* and not yet committed, the id of the student it committed and its response
IdleTx ==
    [pc |-> "idle", email |-> <<>>, nric |-> Absent, courseId |-> None,
     amount |-> None, dup |-> FALSE, student |-> FALSE, enrollment |-> FALSE,
     payment |-> FALSE, created |-> None, status |-> 0, error |-> ""]

NoTxs == [c \in Clients |-> IdleTx]

\* the fields of the student form as useForm() registers them, all empty
EmptyForm == [email |-> <<>>, nricPassportId |-> Absent]

\* the Students page as it mounts: no modal is open
\* (form, loading and data are the state of StudentForm and the argument of
\* its submission in flight; step, file, the preview and the body of the
\* import request in flight are the state of CSVImport)
NoPage ==
    [showForm |-> FALSE, form |-> EmptyForm, loading |-> FALSE, data |-> EmptyForm,
     toast |-> "", showCSVImport |-> FALSE, step |-> "upload", file |-> <<>>,
     uploading |-> FALSE, validRows |-> 0, preview |-> <<>>, importing |-> FALSE,
     body |-> <<>>]

\* paymentStatus of GET /enrollments
EnrollmentListPaymentStatus(enrollmentId) ==
    LET totalPaid   == TotalPaid(payments, enrollmentId)
        coursePrice == parseFloat(PriceCents(enrollmentId))
        outstanding == FMax0Sub(coursePrice, totalPaid)
    IN  [totalPaid |-> totalPaid, outstanding |-> outstanding,
         isFullyPaid |-> FGe(Zero, outstanding)]

\* paymentStatus of GET /enrollments/:id
EnrollmentDetailPaymentStatus(enrollmentId) ==
    LET totalPaid   == TotalPaid(payments, enrollmentId)
        coursePrice == parseFloat(PriceCents(enrollmentId))
        outstanding == FMax0Sub(coursePrice, totalPaid)
    IN  [totalPaid |-> totalPaid, outstanding |-> outstanding,
         isFullyPaid |-> FGe(Zero, outstanding)]

\* an item of summary in GET /payments/student/:studentId/summary
StudentSummaryItem(enrollmentId) ==
    LET totalPaid   == TotalPaid(payments, enrollmentId)
        coursePrice == parseFloat(PriceCents(enrollmentId))
        outstanding == FMax0Sub(coursePrice, totalPaid)
    IN  [totalPaid |-> totalPaid, outstanding |-> outstanding,
         isFullyPaid |-> FGe(Zero, outstanding)]

\* findMany without orderBy: the rows in whatever order the database
\* returns them
AnyOrders(ids) ==
    {order \in [1..Cardinality(ids) -> ids] :
        \A i, j \in 1..Cardinality(ids) : i # j => order[i] # order[j]}

\* findMany({ where: { status: 'ACTIVE' }, include: { course, payments } })
ActiveEnrollments == {e \in DOMAIN enrollments : enrollments[e].status = "ACTIVE"}

\* list.reduce((total, enrollment) => total + Math.max(0, coursePrice -
\* totalPaid), 0) from the k-th enrollment of the list on
RECURSIVE ReduceOutstanding(_, _, _)
ReduceOutstanding(list, k, total) ==
    IF k > Len(list) THEN total
    ELSE LET totalPaid   == TotalPaid(payments, list[k])
             coursePrice == parseFloat(PriceCents(list[k]))
         IN  ReduceOutstanding(list, k + 1,
                               FAdd(total, FMax0Sub(coursePrice, totalPaid)))

\* outstandingAmount of GET /dashboard/overview
OverviewOutstanding(activeEnrollmentsList) ==
    ReduceOutstanding(activeEnrollmentsList, 1, Zero)

\* revenue.outstanding of GET /dashboard/payments
PaymentsOutstanding(activeEnrollmentsForOutstanding) ==
    ReduceOutstanding(activeEnrollmentsForOutstanding, 1, Zero)

(***************************************************************************)
(* Initial state: an empty database.                                       *)
(***************************************************************************)
Init ==
    /\ students = <<>>
    /\ courses = <<>>
    /\ enrollments = <<>>
    /\ payments = <<>>
    /\ reqs = [c \in Clients |-> Idle]
    /\ csv = NoUpload
    /\ listing = NoListing
    /\ txs = NoTxs
    /\ ui = NoPage

(***************************************************************************)
(* /courses                                                                *)
(***************************************************************************)
\* body('name').trim().isLength({ min: 2, max: 100 })
ValidCourseName(name) == Len(trim(name)) >= 2

\* findFirst({ where: { name: { equals: name, mode: 'insensitive' }, NOT: { id } } })
CourseNameExists(name, exceptId) ==
    \E c \in DOMAIN courses \ {exceptId} : EqualsInsensitive(courses[c].name, name)

\* POST /courses
PostCourseResult(name, price, isActive) ==
    IF ~ValidCourseName(name)
    THEN Reject(400, "Course name must be 2-100 characters")
    ELSE IF CourseNameExists(trim(name), None)
    THEN Reject(400, "Course name already exists")
    ELSE Done(201, students,
              Insert(courses, FreshId(courses, CourseIds),
                     [name |-> trim(name), price |-> price, isActive |-> isActive]),
              enrollments, payments)

PostCourse(name, price, isActive) ==
    LET result == PostCourseResult(name, price, isActive)
    IN  /\ result.status = 201 => HasRoom(courses, CourseIds)
        /\ Apply(result)

\* PUT /courses/:id
PutCourseResult(id, name, price, isActive) ==
    IF ~ValidCourseName(name)
    THEN Reject(400, "Course name must be 2-100 characters")
    ELSE IF CourseNameExists(trim(name), id)
    THEN Reject(400, "Course name already exists")
    ELSE IF id \notin DOMAIN courses
    THEN Reject(404, "Course not found")
    ELSE Done(200, students,
              [courses EXCEPT ![id] =
                  [name |-> trim(name), price |-> price, isActive |-> isActive]],
              enrollments, payments)

PutCourse(id, name, price, isActive) == Apply(PutCourseResult(id, name, price, isActive))

\* PATCH /courses/:id/toggle-status
ToggleCourseStatusResult(id) ==
    IF id \notin DOMAIN courses
    THEN Reject(404, "Course not found")
    ELSE Done(200, students,
              [courses EXCEPT ![id].isActive = ~courses[id].isActive],
              enrollments, payments)

ToggleCourseStatus(id) == Apply(ToggleCourseStatusResult(id))

\* the test, had it counted ACTIVE enrollments only
CourseHasActiveEnrollments(id) ==
    \E e \in DOMAIN enrollments :
        enrollments[e].courseId = id /\ enrollments[e].status = "ACTIVE"

\* the enrollments.length > 0 test of DELETE /courses/:id
CourseHasEnrollments(id) == \E e \in DOMAIN enrollments : enrollments[e].courseId = id

\* DELETE /courses/:id
DeleteCourseResult(id) ==
    IF CourseHasEnrollments(id)
    THEN Reject(400, "Cannot delete course with active enrollments")
    ELSE IF id \notin DOMAIN courses
    THEN Reject(404, "Course not found")
    ELSE Done(200, students, Remove(courses, id), enrollments, payments)

DeleteCourse(id) == Apply(DeleteCourseResult(id))

(***************************************************************************)
(* /enrollments                                                            *)
(***************************************************************************)
\* findFirst({ where: { studentId, courseId, status: 'ACTIVE' } })
ExistingActiveEnrollment(studentId, courseId) ==
    \E e \in DOMAIN enrollments :
        /\ enrollments[e].studentId = studentId
        /\ enrollments[e].courseId = courseId
        /\ enrollments[e].status = "ACTIVE"

\* the test with the flag the wrong way round
CourseIsActive(courseId) == courses[courseId].isActive

\* if (!course.isActive)
CourseNotActive(courseId) == ~courses[courseId].isActive

\* POST /enrollments (status defaults to ACTIVE)
PostEnrollmentResult(studentId, courseId, status) ==
    IF studentId \notin DOMAIN students
    THEN Reject(400, "Student not found")
    ELSE IF courseId \notin DOMAIN courses
    THEN Reject(400, "Course not found")
    ELSE IF CourseNotActive(courseId)
    THEN Reject(400, "Course is not active")
    ELSE IF ExistingActiveEnrollment(studentId, courseId)
    THEN Reject(400, "Student is already enrolled in this course")
    ELSE Done(201, students, courses,
              Insert(enrollments, FreshId(enrollments, EnrollmentIds),
                     [studentId |-> studentId, courseId |-> courseId,
                      status |-> IF status = Absent THEN "ACTIVE" ELSE status]),
              payments)

PostEnrollment(studentId, courseId, status) ==
    LET result == PostEnrollmentResult(studentId, courseId, status)
    IN  /\ result.status = 201 => HasRoom(enrollments, EnrollmentIds)
        /\ Apply(result)

\* PUT /enrollments/:id (studentId and courseId are required by validateEnrollment)
PutEnrollmentResult(id, studentId, courseId, status) ==
    IF id \notin DOMAIN enrollments
    THEN Reject(404, "Enrollment not found")
    ELSE IF studentId \notin DOMAIN students
    THEN Reject(400, "Student not found")
    ELSE IF courseId \notin DOMAIN courses
    THEN Reject(400, "Course not found")
    ELSE IF CourseNotActive(courseId)
    THEN Reject(400, "Course is not active")
    ELSE Done(200, students, courses,
              [enrollments EXCEPT ![id] =
                  [studentId |-> studentId, courseId |-> courseId,
                   status |-> IF status = Absent THEN enrollments[id].status ELSE status]],
              payments)

PutEnrollment(id, studentId, courseId, status) ==
    Apply(PutEnrollmentResult(id, studentId, courseId, status))

\* PATCH /enrollments/:id/status
PatchEnrollmentStatusResult(id, status) ==
    IF status \notin Statuses
    THEN Reject(400, "Invalid status")
    ELSE IF id \notin DOMAIN enrollments
    THEN Reject(404, "Enrollment not found")
    ELSE Done(200, students, courses,
              [enrollments EXCEPT ![id].status = status], payments)

PatchEnrollmentStatus(id, status) == Apply(PatchEnrollmentStatusResult(id, status))

\* the test, had it protected the payments of ACTIVE enrollments only
EnrollmentHasPaymentsWhileActive(id) ==
    /\ id \in DOMAIN enrollments
    /\ enrollments[id].status = "ACTIVE"
    /\ PaymentsOf(payments, id) # {}

\* the payments.length > 0 test of DELETE /enrollments/:id
EnrollmentHasPayments(id) == PaymentsOf(payments, id) # {}

\* DELETE /enrollments/:id
DeleteEnrollmentResult(id) ==
    IF EnrollmentHasPayments(id)
    THEN Reject(400, "Cannot delete enrollment with payment records")
    ELSE IF id \notin DOMAIN enrollments
    THEN Reject(404, "Enrollment not found")
    ELSE Done(200, students, courses, Remove(enrollments, id), payments)

DeleteEnrollment(id) == Apply(DeleteEnrollmentResult(id))

(***************************************************************************)
(* /payments                                                               *)
(***************************************************************************)
\* the price check with the comparison turned around
ExceedsCoursePriceReversed(newTotalPaid, coursePrice) == FGt(coursePrice, newTotalPaid)

\* if (newTotalPaid > coursePrice): reject
ExceedsCoursePrice(newTotalPaid, coursePrice) == FGt(newTotalPaid, coursePrice)

\* if (newTotalPaid >= coursePrice): the enrollment becomes COMPLETED
FullyPaid(newTotalPaid, coursePrice) == FGe(newTotalPaid, coursePrice)

\* enrollment.studentId !== studentId
NotOwnEnrollment(enrollmentId, studentId) == enrollments[enrollmentId].studentId # studentId

\* the test, had it turned down CANCELLED enrollments only
EnrollmentCancelled(enrollmentId) == enrollments[enrollmentId].status = "CANCELLED"

\* enrollment.status !== 'ACTIVE'
EnrollmentNotActive(enrollmentId) == enrollments[enrollmentId].status # "ACTIVE"

\* POST /payments, run without interleaving
PostPaymentResult(studentId, enrollmentId, amount) ==
    IF studentId \notin DOMAIN students
    THEN Reject(400, "Student not found")
    ELSE IF enrollmentId \notin DOMAIN enrollments
    THEN Reject(400, "Enrollment not found")
    ELSE IF NotOwnEnrollment(enrollmentId, studentId)
    THEN Reject(400, "Enrollment does not belong to the specified student")
    ELSE IF EnrollmentNotActive(enrollmentId)
    THEN Reject(400, "Cannot record payment for inactive enrollment")
    ELSE LET totalPaid    == TotalPaid(payments, enrollmentId)
             coursePrice  == parseFloat(PriceCents(enrollmentId))
             newTotalPaid == FAdd(totalPaid, parseFloat(amount))
         IN  IF ExceedsCoursePrice(newTotalPaid, coursePrice)
             THEN Reject(400, "Payment amount exceeds course price")
             ELSE Done(201, students, courses,
                       IF FullyPaid(newTotalPaid, coursePrice)
                       THEN [enrollments EXCEPT ![enrollmentId].status = "COMPLETED"]
                       ELSE enrollments,
                       Insert(payments, FreshId(payments, PaymentIds),
                              [studentId |-> studentId, enrollmentId |-> enrollmentId,
                               amount |-> amount]))

PostPayment(studentId, enrollmentId, amount) ==
    LET result == PostPaymentResult(studentId, enrollmentId, amount)
    IN  /\ result.status = 201 => HasRoom(payments, PaymentIds)
        /\ Apply(result)

\* PUT /payments/:id (studentId and enrollmentId are required by validatePayment)
PutPaymentResult(id, studentId, enrollmentId, amount) ==
    IF id \notin DOMAIN payments
    THEN Reject(404, "Payment not found")
    ELSE IF studentId \notin DOMAIN students
    THEN Reject(400, "Student not found")
    ELSE IF enrollmentId \notin DOMAIN enrollments
    THEN Reject(400, "Enrollment not found")
    ELSE IF NotOwnEnrollment(enrollmentId, studentId)
    THEN Reject(400, "Enrollment does not belong to the specified student")
    ELSE Done(200, students, courses, enrollments,
              [payments EXCEPT ![id] =
                  [studentId |-> studentId, enrollmentId |-> enrollmentId,
                   amount |-> amount]])

PutPayment(id, studentId, enrollmentId, amount) ==
    Apply(PutPaymentResult(id, studentId, enrollmentId, amount))

\* DELETE /payments/:id
DeletePaymentResult(id) ==
    IF id \notin DOMAIN payments
    THEN Reject(404, "Payment not found")
    ELSE Done(200, students, courses, enrollments, Remove(payments, id))

DeletePayment(id) == Apply(DeletePaymentResult(id))

(***************************************************************************)
(* /students                                                               *)
(***************************************************************************)
\* the unique index on Student.email, as written: findUnique({ where: { email } })
EmailTaken(studs, email) == \E i \in DOMAIN studs : studs[i].email = email

\* findFirst({ where: { nricPassportId } }) of full-create
NricTaken(studs, nric) == \E i \in DOMAIN studs : studs[i].nricPassportId = nric

\* schema: Student.nricPassportId is optional and unique (the index the P2002
\* branch of full-create names); a row without the field never collides
NricIndexViolated(studs, nric) ==
    nric # Absent /\ \E i \in DOMAIN studs : studs[i].nricPassportId = nric

\* body('email').isEmail(): local@domain, no white space
isEmail(str) ==
    /\ Len(str) >= 3
    /\ Cardinality({i \in 1..Len(str) : str[i] = "@"}) = 1
    /\ str[1] # "@" /\ str[Len(str)] # "@"
    /\ ~includes(str, " ")

\* .normalizeEmail(): the address in lower case
normalizeEmail(str) == toLowerCase(str)

\* findFirst({ where: { email, NOT: { id } } })
EmailOfAnother(email, id) ==
    \E i \in DOMAIN students \ {id} : students[i].email = email

\* POST /students
PostStudentResult(email, nric) ==
    IF ~isEmail(email)
    THEN Reject(400, "Must be a valid email")
    ELSE IF EmailTaken(students, normalizeEmail(email))
    THEN Reject(400, "Email already registered")
    ELSE IF NricIndexViolated(students, nric)
    THEN Reject(500, "Failed to create student")
    ELSE Done(201,
              Insert(students, FreshId(students, StudentIds),
                     [email |-> normalizeEmail(email), nricPassportId |-> nric]),
              courses, enrollments, payments)

PostStudent(email, nric) ==
    LET result == PostStudentResult(email, nric)
    IN  /\ result.status = 201 => HasRoom(students, StudentIds)
        /\ Apply(result)

\* PUT /students/:id
PutStudentResult(id, email, nric) ==
    IF ~isEmail(email)
    THEN Reject(400, "Must be a valid email")
    ELSE IF EmailOfAnother(normalizeEmail(email), id)
    THEN Reject(400, "Email already registered to another student")
    ELSE IF id \notin DOMAIN students
    THEN Reject(404, "Student not found")
    ELSE IF NricIndexViolated(Remove(students, id), nric)
    THEN Reject(500, "Failed to update student")
    ELSE Done(200,
              [students EXCEPT ![id] =
                  [email |-> normalizeEmail(email),
                   nricPassportId |-> IF nric = Absent THEN @.nricPassportId ELSE nric]],
              courses, enrollments, payments)

PutStudent(id, email, nric) == Apply(PutStudentResult(id, email, nric))

\* rows of the other tables that reference the student
StudentHasDependents(id) ==
    \/ \E e \in DOMAIN enrollments : enrollments[e].studentId = id
    \/ \E p \in DOMAIN payments : payments[p].studentId = id

\* DELETE /students/:id.  onDelete is the referential action of the
\* relations to Student: "Cascade" takes the student's rows along,
\* "Restrict" makes prisma.student.delete throw.
DeleteStudentResult(id, onDelete) ==
    IF id \notin DOMAIN students
    THEN Reject(404, "Student not found")
    ELSE IF onDelete = "Restrict" /\ StudentHasDependents(id)
    THEN Reject(500, "Failed to delete student")
    ELSE Done(200, Remove(students, id), courses,
              [e \in {x \in DOMAIN enrollments : enrollments[x].studentId # id}
                  |-> enrollments[e]],
              [p \in {x \in DOMAIN payments :
                        /\ payments[x].studentId # id
                        /\ payments[x].enrollmentId \in DOMAIN enrollments =>
                              enrollments[payments[x].enrollmentId].studentId # id}
                  |-> payments[p]])

DeleteStudent(id, onDelete) == Apply(DeleteStudentResult(id, onDelete))

\* What the loop of an import has done so far: the tables, the counters of
\* the response and its errors array.
ImportStart ==
    [students |-> students, courses |-> courses, enrollments |-> enrollments,
     imported |-> 0, enrollmentsCreated |-> 0, errors |-> <<>>]

\* the entry, had it carried the loop index i of the code (the row less one)
RowErrorZeroBased(acc, i, error) ==
    [acc EXCEPT !.errors = Append(@, [row |-> i - 1, error |-> error])]

\* errors.push({ row: i + 1, error }); rows are numbered from 1 here
RowError(acc, i, error) ==
    [acc EXCEPT !.errors = Append(@, [row |-> i, error |-> error])]

\* res.json({ imported, total, errors, ... }) after the loop
ImportResponse(acc, total) ==
    [status |-> 200, error |-> "", students |-> acc.students, courses |-> acc.courses,
     enrollments |-> acc.enrollments, payments |-> payments,
     imported |-> acc.imported, total |-> total,
     enrollmentsCreated |-> acc.enrollmentsCreated, errors |-> acc.errors]

\* student.create, had the table no unique index on email
CreateImportedUnchecked(acc, i, email) ==
    [acc EXCEPT
        !.students = Insert(@, FreshId(@, StudentIds),
                            [email |-> toLowerCase(trim(email)),
                             nricPassportId |-> Absent]),
        !.imported = @ + 1]

\* student.create of the import loops: the address trimmed, in lower case
CreateImported(acc, i, email) ==
    IF EmailTaken(acc.students, toLowerCase(trim(email)))
    THEN RowError(acc, i, "Unique constraint failed on the fields: (email)")
    ELSE [acc EXCEPT
            !.students = Insert(@, FreshId(@, StudentIds),
                                [email |-> toLowerCase(trim(email)),
                                 nricPassportId |-> Absent]),
            !.imported = @ + 1]

\* the turn, had it skipped a registered address without reporting it
BulkImportRowSilent(acc, i, row) ==
    IF row.email = <<>>
    THEN RowError(acc, i, "Missing required fields (name, email, phone)")
    ELSE IF EmailTaken(acc.students, toLowerCase(trim(row.email)))
    THEN acc
    ELSE CreateImported(acc, i, row.email)

\* one turn of the loop of POST /students/bulk-import
BulkImportRow(acc, i, row) ==
    IF row.email = <<>>
    THEN RowError(acc, i, "Missing required fields (name, email, phone)")
    ELSE IF EmailTaken(acc.students, row.email)
    THEN RowError(acc, i, "Email already registered")
    ELSE CreateImported(acc, i, row.email)

RECURSIVE BulkImportLoop(_, _, _)
BulkImportLoop(rows, i, acc) ==
    IF i > Len(rows) THEN acc
    ELSE BulkImportLoop(rows, i + 1, BulkImportRow(acc, i, rows[i]))

\* POST /students/bulk-import
BulkImportResult(rows) ==
    IF Len(rows) = 0
    THEN Reject(400, "Students data is required and must be an array")
    ELSE ImportResponse(BulkImportLoop(rows, 1, ImportStart), Len(rows))

BulkImport(rows) ==
    LET result == BulkImportResult(rows)
    IN  /\ DOMAIN result.students \subseteq StudentIds
        /\ Apply(result)

\* findFirst({ where: { name: { equals: name, mode: 'insensitive' },
\*                      isActive: true } })
ActiveCoursesNamed(crs, name) ==
    {c \in DOMAIN crs : EqualsInsensitive(crs[c].name, name) /\ crs[c].isActive}

\* findFirst has no orderBy: any of the matching rows may come back, here
\* the preferred one when it matches
FindFirst(ids, prefer) ==
    IF prefer \in ids THEN prefer ELSE CHOOSE i \in ids : \A j \in ids : i <= j

\* the find-or-create of a row's course and the row's enrollment
EnrollImported(acc, studentId, course, prefer) ==
    LET found == ActiveCoursesNamed(acc.courses, course)
        cid   == IF found # {} THEN FindFirst(found, prefer)
                 ELSE FreshId(acc.courses, CourseIds)
        crs1  == IF found # {} THEN acc.courses
                 ELSE Insert(acc.courses, cid,
                             [name |-> trim(course), price |-> 0, isActive |-> TRUE])
    IN  [acc EXCEPT
            !.courses = crs1,
            !.enrollments = Insert(@, FreshId(@, EnrollmentIds),
                                   [studentId |-> studentId, courseId |-> cid,
                                    status |-> "ACTIVE"]),
            !.enrollmentsCreated = @ + 1]

\* one turn of the loop of POST /upload/import-students; the validators have
\* normalised row.email
ImportStudentsRow(acc, i, row, createEnrollments, prefer) ==
    IF EmailTaken(acc.students, row.email)
    THEN RowError(acc, i, "Email already registered")
    ELSE LET acc1 == CreateImported(acc, i, row.email)
         IN  IF acc1.imported > acc.imported /\ createEnrollments /\ row.course # <<>>
             THEN EnrollImported(acc1, FreshId(acc.students, StudentIds), row.course,
                                 prefer)
             ELSE acc1

RECURSIVE ImportStudentsLoop(_, _, _, _, _)
ImportStudentsLoop(rows, createEnrollments, prefer, i, acc) ==
    IF i > Len(rows) THEN acc
    ELSE ImportStudentsLoop(rows, createEnrollments, prefer, i + 1,
             ImportStudentsRow(acc, i,
                 [rows[i] EXCEPT !.email = normalizeEmail(@)],
                 createEnrollments, prefer))

\* POST /upload/import-students
ImportStudentsResult(rows, createEnrollments, prefer) ==
    IF \E i \in 1..Len(rows) : ~isEmail(rows[i].email)
    THEN Reject(400, "Must be a valid email")
    ELSE IF Len(rows) = 0
    THEN Reject(400, "Students data is required and must be an array")
    ELSE ImportResponse(
             ImportStudentsLoop(rows, createEnrollments, prefer, 1, ImportStart),
             Len(rows))

ImportStudents(rows, createEnrollments, prefer) ==
    LET result == ImportStudentsResult(rows, createEnrollments, prefer)
    IN  /\ DOMAIN result.students \subseteq StudentIds
        /\ DOMAIN result.courses \subseteq CourseIds
        /\ DOMAIN result.enrollments \subseteq EnrollmentIds
        /\ Apply(result)

(***************************************************************************)
(* POST /students/full-create: student (+ optional enrollment, payment)    *)
(* inside prisma.$transaction.                                             *)
(***************************************************************************)
\* schema: Enrollment.course is a required relation
CourseExists(courseId) == courseId \in DOMAIN courses

\* schema: Payment.enrollment is a required relation
EnrollmentExists(enrs, enrollmentId) == enrollmentId # None /\ enrollmentId \in DOMAIN enrs

\* the resolution, had the explicit target always come first
ResolveExplicitFirst(applyTo, payEnrollmentId, createdEnrollmentId) ==
    IF payEnrollmentId # None THEN payEnrollmentId ELSE createdEnrollmentId

\* the enrollment the payment of full-create is recorded against
ResolveEnrollmentId(applyTo, payEnrollmentId, createdEnrollmentId) ==
    LET enrollmentId == IF applyTo = "enrollment" THEN createdEnrollmentId
                        ELSE payEnrollmentId
    IN  IF enrollmentId # None THEN enrollmentId
        ELSE IF createdEnrollmentId # None THEN createdEnrollmentId
        ELSE payEnrollmentId

\* The body of the transaction, run on the transaction's view of the tables:
\* the tables as the body left them, and the error it threw ("" when it
\* returned).
FullCreateBody(email, nric, courseId, status, amount, applyTo, payEnrollmentId) ==
    LET sid    == FreshId(students, StudentIds)
        eid    == FreshId(enrollments, EnrollmentIds)
        pid    == FreshId(payments, PaymentIds)
        studs1 == Insert(students, sid, [email |-> email, nricPassportId |-> nric])
        enrs1  == Insert(enrollments, eid,
                      [studentId |-> sid, courseId |-> courseId,
                       status |-> IF status = Absent THEN "ACTIVE" ELSE status])
        enrs2  == IF courseId # None THEN enrs1 ELSE enrollments
        createdEnrollmentId == IF courseId # None THEN eid ELSE None
        target == ResolveEnrollmentId(applyTo, payEnrollmentId, createdEnrollmentId)
        pays1  == Insert(payments, pid,
                      [studentId |-> sid, enrollmentId |-> target, amount |-> amount])
    IN  IF NricTaken(students, nric)
        THEN [error |-> "NRIC/Passport ID already exists. Please use a different ID.",
              students |-> students, enrollments |-> enrollments, payments |-> payments]
        ELSE IF EmailTaken(students, email)
        THEN [error |-> "Email address already exists. Please use a different email.",
              students |-> students, enrollments |-> enrollments, payments |-> payments]
        ELSE IF courseId # None /\ ~CourseExists(courseId)
        THEN [error |-> "Foreign key constraint failed: courseId",
              students |-> studs1, enrollments |-> enrollments, payments |-> payments]
        ELSE IF amount = Invalid
        THEN [error |-> "Invalid payment amount. Please enter a valid number.",
              students |-> studs1, enrollments |-> enrs2, payments |-> payments]
        ELSE IF amount # None /\ ~EnrollmentExists(enrs2, target)
        THEN [error |-> "Foreign key constraint failed: enrollmentId",
              students |-> studs1, enrollments |-> enrs2, payments |-> payments]
        ELSE [error |-> "",
              students |-> studs1, enrollments |-> enrs2,
              payments |-> IF amount # None THEN pays1 ELSE payments]

\* the body run outside a transaction: what it wrote before throwing stays
TransactionNoRollback(body) ==
    IF body.error = ""
    THEN Done(201, body.students, courses, body.enrollments, body.payments)
    ELSE [status |-> 400, error |-> body.error, students |-> body.students,
          courses |-> courses, enrollments |-> body.enrollments,
          payments |-> body.payments]

\* prisma.$transaction: the writes of a body that threw are rolled back
Transaction(body) ==
    IF body.error = ""
    THEN Done(201, body.students, courses, body.enrollments, body.payments)
    ELSE Reject(400, body.error)

FullCreateResult(email, nric, courseId, status, amount, applyTo, payEnrollmentId) ==
    Transaction(FullCreateBody(email, nric, courseId, status, amount, applyTo,
                               payEnrollmentId))

FullCreate(email, nric, courseId, status, amount, applyTo, payEnrollmentId) ==
    /\ HasRoom(students, StudentIds)
    /\ courseId # None => HasRoom(enrollments, EnrollmentIds)
    /\ amount # None => HasRoom(payments, PaymentIds)
    /\ Apply(FullCreateResult(email, nric, courseId, status, amount, applyTo,
                              payEnrollmentId))

(***************************************************************************)
(* Requests arrive one at a time and each handler runs to its response.    *)
(***************************************************************************)
FullCreateInputs ==
    {in \in [email : Emails, nric : Nrics, courseId : LedgerCourseIds \cup {None},
             status : ReqStatuses \cup {Absent},
             amount : Amounts \cup {None, Invalid},
             applyTo : {"enrollment", "student"},
             enrollmentId : EnrollmentIds \cup {None}] :
        /\ in.courseId = None => in.status = Absent
        /\ in.amount \in {None, Invalid} =>
              (in.applyTo = "enrollment" /\ in.enrollmentId = None)}

Next ==
    \/ \E name \in LedgerNames, price \in Prices, isActive \in BOOLEAN :
          /\ Cardinality(DOMAIN courses) < LedgerCourses
          /\ PostCourse(name, price, isActive)
    \/ \E id \in LedgerCourseIds, name \in LedgerNames, price \in Prices,
          isActive \in BOOLEAN : PutCourse(id, name, price, isActive)
    \/ \E id \in LedgerCourseIds : DeleteCourse(id)
    \/ \E s \in StudentIds, c \in LedgerCourseIds, st \in ReqStatuses \cup {Absent} :
          PostEnrollment(s, c, st)
    \/ \E id \in EnrollmentIds, s \in StudentIds, c \in LedgerCourseIds,
          st \in ReqStatuses \cup {Absent} : PutEnrollment(id, s, c, st)
    \/ \E id \in EnrollmentIds, st \in ReqStatuses : PatchEnrollmentStatus(id, st)
    \/ \E id \in EnrollmentIds : DeleteEnrollment(id)
    \/ \E s \in StudentIds, e \in EnrollmentIds, a \in Amounts : PostPayment(s, e, a)
    \/ \E id \in PaymentIds, s \in StudentIds, e \in EnrollmentIds, a \in Amounts :
          PutPayment(id, s, e, a)
    \/ \E id \in PaymentIds : DeletePayment(id)
    \/ \E in \in FullCreateInputs :
          FullCreate(in.email, in.nric, in.courseId, in.status, in.amount, in.applyTo,
                     in.enrollmentId)

Spec == Init /\ [][Next]_vars


(***************************************************************************)
(* The student directory: the requests that write students, one at a time, *)
(* from an empty database.                                                 *)
(***************************************************************************)
RawEmails == Emails \cup {<<"A", "@", "x">>, <<"A", "@", "x", " ">>}
OnDelete == {"Cascade", "Restrict"}

BulkRows == [email : RawEmails \cup {<<>>}]
BulkFiles == UNION {[1..n -> BulkRows] : n \in 0..MaxRows}

ImportEmails == {<<"A", "@", "x">>, <<"b", "@", "x">>, <<"A", "@", "x", " ">>}
ImportCourses == {<<>>, <<"m", "a">>, <<"M", "a", " ">>}
ImportRows == [email : ImportEmails, course : ImportCourses]
ImportFiles == UNION {[1..n -> ImportRows] : n \in 0..MaxRows}

\* the bodies of POST /upload/import-students; without createEnrollments the
\* course cells and the row findFirst returns play no part
ImportRequests ==
    {in \in [rows : ImportFiles, createEnrollments : BOOLEAN, prefer : CourseIds] :
        ~in.createEnrollments =>
            /\ in.prefer = 1
            /\ \A i \in 1..Len(in.rows) : in.rows[i].course = <<>>}

NextDir ==
    \/ \E email \in RawEmails, nric \in Nrics \cup {Absent} : PostStudent(email, nric)
    \/ \E id \in StudentIds, email \in RawEmails, nric \in Nrics \cup {Absent} :
          PutStudent(id, email, nric)
    \/ \E id \in StudentIds, onDelete \in OnDelete : DeleteStudent(id, onDelete)
    \/ \E rows \in BulkFiles : BulkImport(rows)
    \/ \E in \in ImportRequests :
          ImportStudents(in.rows, in.createEnrollments, in.prefer)
    \/ \E email \in RawEmails, nric \in Nrics :
          FullCreate(email, nric, None, Absent, None, "enrollment", None)

SpecDir == Init /\ [][NextDir]_vars

(***************************************************************************)
(* The course catalogue: the requests that write courses, the import with  *)
(* its find-or-create among them, one at a time, from an empty database.   *)
(***************************************************************************)
CatalogPrices == {0}
NextCat ==
    \/ \E name \in CourseNames, price \in CatalogPrices, isActive \in BOOLEAN :
          PostCourse(name, price, isActive)
    \/ \E id \in CourseIds, name \in CourseNames, price \in CatalogPrices,
          isActive \in BOOLEAN : PutCourse(id, name, price, isActive)
    \/ \E id \in CourseIds : ToggleCourseStatus(id)
    \/ \E id \in CourseIds : DeleteCourse(id)
    \/ \E in \in ImportRequests :
          ImportStudents(in.rows, in.createEnrollments, in.prefer)
    \/ \E id \in StudentIds, onDelete \in OnDelete : DeleteStudent(id, onDelete)

SpecCat == Init /\ [][NextCat]_vars

(***************************************************************************)
(* POST /payments as Node runs it: the handler yields at every await, so   *)
(* the steps of several requests interleave.  No transaction spans them.   *)
(***************************************************************************)
Finish(c, status, error) ==
    reqs' = [reqs EXCEPT ![c].pc = "done", ![c].status = status, ![c].error = error]

\* the request arrives
Submit(c, studentId, enrollmentId, amount) ==
    /\ reqs[c].pc = "idle"
    /\ reqs' = [reqs EXCEPT ![c] = [Idle EXCEPT !.pc = "findStudent",
                   !.studentId = studentId, !.enrollmentId = enrollmentId,
                   !.amount = amount]]
    /\ UNCHANGED <<students, courses, enrollments, payments, csv, listing, txs, ui>>

\* await prisma.student.findUnique
FindStudent(c) ==
    /\ reqs[c].pc = "findStudent"
    /\ IF reqs[c].studentId \notin DOMAIN students
       THEN Finish(c, 400, "Student not found")
       ELSE reqs' = [reqs EXCEPT ![c].pc = "findEnrollment"]
    /\ UNCHANGED <<students, courses, enrollments, payments, csv, listing, txs, ui>>

\* await prisma.enrollment.findUnique({ include: { course: true } }), then the
\* ownership and status checks on what was read
FindEnrollment(c) ==
    /\ reqs[c].pc = "findEnrollment"
    /\ LET enrollmentId == reqs[c].enrollmentId
       IN  IF enrollmentId \notin DOMAIN enrollments
           THEN Finish(c, 400, "Enrollment not found")
           ELSE IF NotOwnEnrollment(enrollmentId, reqs[c].studentId)
           THEN Finish(c, 400, "Enrollment does not belong to the specified student")
           ELSE IF EnrollmentNotActive(enrollmentId)
           THEN Finish(c, 400, "Cannot record payment for inactive enrollment")
           ELSE reqs' = [reqs EXCEPT ![c].pc = "findPayments",
                            ![c].coursePrice = parseFloat(PriceCents(enrollmentId))]
    /\ UNCHANGED <<students, courses, enrollments, payments, csv, listing, txs, ui>>

\* the step without the price check
FindPaymentsNoCheck(c) ==
    /\ reqs[c].pc = "findPayments"
    /\ reqs' = [reqs EXCEPT ![c].pc = "create",
                    ![c].totalPaid = TotalPaid(payments, reqs[c].enrollmentId)]
    /\ UNCHANGED <<students, courses, enrollments, payments, csv, listing, txs, ui>>

\* await prisma.payment.findMany, then the price check on what was read
FindPayments(c) ==
    /\ reqs[c].pc = "findPayments"
    /\ LET totalPaid    == TotalPaid(payments, reqs[c].enrollmentId)
           newTotalPaid == FAdd(totalPaid, parseFloat(reqs[c].amount))
       IN  IF ExceedsCoursePrice(newTotalPaid, reqs[c].coursePrice)
           THEN Finish(c, 400, "Payment amount exceeds course price")
           ELSE reqs' = [reqs EXCEPT ![c].pc = "create", ![c].totalPaid = totalPaid]
    /\ UNCHANGED <<students, courses, enrollments, payments, csv, listing, txs, ui>>

\* await prisma.payment.create
CreatePayment(c) ==
    /\ reqs[c].pc = "create"
    /\ HasRoom(payments, PaymentIds)
    /\ payments' = Insert(payments, FreshId(payments, PaymentIds),
           [studentId |-> reqs[c].studentId, enrollmentId |-> reqs[c].enrollmentId,
            amount |-> reqs[c].amount])
    /\ IF FullyPaid(FAdd(reqs[c].totalPaid, parseFloat(reqs[c].amount)), reqs[c].coursePrice)
       THEN reqs' = [reqs EXCEPT ![c].pc = "update"]
       ELSE Finish(c, 201, "")
    /\ UNCHANGED <<students, courses, enrollments, csv, listing, txs, ui>>

\* await prisma.enrollment.update({ data: { status: 'COMPLETED' } })
UpdateEnrollment(c) ==
    /\ reqs[c].pc = "update"
    /\ enrollments' = [enrollments EXCEPT ![reqs[c].enrollmentId].status = "COMPLETED"]
    /\ Finish(c, 201, "")
    /\ UNCHANGED <<students, courses, payments, csv, listing, txs, ui>>

\* One student enrolled in one active course, nothing paid yet: the state
\* after POST /courses and a POST /students/full-create with an enrollment.
InitConc ==
    /\ students = 1 :> [email |-> <<"a", "@", "x">>, nricPassportId |-> "S1"]
    /\ \E price \in Prices : courses = 1 :> [name |-> <<"M", "a">>, price |-> price, isActive |-> TRUE]
    /\ enrollments = 1 :> [studentId |-> 1, courseId |-> 1, status |-> "ACTIVE"]
    /\ payments = <<>>
    /\ reqs = [c \in Clients |-> Idle]
    /\ csv = NoUpload
    /\ listing = NoListing
    /\ txs = NoTxs
    /\ ui = NoPage

NextConc ==
    \/ \E c \in Clients, s \in StudentIds, e \in EnrollmentIds, a \in Amounts :
          Submit(c, s, e, a)
    \/ \E c \in Clients : FindStudent(c)
    \/ \E c \in Clients : FindEnrollment(c)
    \/ \E c \in Clients : FindPayments(c)
    \/ \E c \in Clients : CreatePayment(c)
    \/ \E c \in Clients : UpdateEnrollment(c)

SpecConc == InitConc /\ [][NextConc]_vars

\* await prisma.enrollment.update rejects (the enrollment row was deleted in
\* the meantime, the database connection is lost): control passes to the catch
\* block, which answers 500; the payment created one statement earlier stays,
\* the two writes are not inside a prisma.$transaction
UpdateEnrollmentFails(c) ==
    /\ reqs[c].pc = "update"
    /\ Finish(c, 500, "Failed to create payment")
    /\ UNCHANGED <<students, courses, enrollments, payments, csv, listing, txs, ui>>

NextFault ==
    \/ \E c \in Clients, s \in StudentIds, e \in EnrollmentIds, a \in Amounts :
          Submit(c, s, e, a)
    \/ \E c \in Clients : FindStudent(c)
    \/ \E c \in Clients : FindEnrollment(c)
    \/ \E c \in Clients : FindPayments(c)
    \/ \E c \in Clients : CreatePayment(c)
    \/ \E c \in Clients : UpdateEnrollment(c)
    \/ \E c \in Clients : UpdateEnrollmentFails(c)

SpecFault == InitConc /\ [][NextFault]_vars

(***************************************************************************)
(* POST /students/full-create, one database statement at a time: two       *)
(* requests run their transactions side by side.  A transaction reads the  *)
(* committed rows only; its own rows reach the tables when it commits, and *)
(* are dropped when the body throws.                                       *)
(***************************************************************************)
NricExistsError == "NRIC/Passport ID already exists. Please use a different ID."
EmailExistsError == "Email address already exists. Please use a different email."

\* the body threw: prisma.$transaction rolls back, the catch block answers 400
TxAbort(c, error) ==
    txs' = [txs EXCEPT ![c].pc = "done", ![c].status = 400, ![c].error = error,
                       ![c].student = FALSE, ![c].enrollment = FALSE,
                       ![c].payment = FALSE]

\* the request arrives with its required student fields
TxBegin(c, email, nric, courseId, amount) ==
    /\ txs[c].pc = "idle"
    /\ txs' = [txs EXCEPT ![c] = [IdleTx EXCEPT !.pc = "findFirst", !.email = email,
                  !.nric = nric, !.courseId = courseId, !.amount = amount]]
    /\ UNCHANGED <<students, courses, enrollments, payments, reqs, csv, listing, ui>>

\* await tx.student.findFirst({ where: { nricPassportId } }); if (dup) throw
TxFindFirst(c) ==
    /\ txs[c].pc = "findFirst"
    /\ IF NricTaken(students, txs[c].nric)
       THEN txs' = [txs EXCEPT ![c].pc = "done", ![c].dup = TRUE, ![c].status = 400,
                               ![c].error = NricExistsError]
       ELSE txs' = [txs EXCEPT ![c].pc = "createStudent"]
    /\ UNCHANGED <<students, courses, enrollments, payments, reqs, csv, listing, ui>>

\* the uncommitted students of the other transactions, as a table
PendingStudents(c) ==
    [d \in {d \in Clients \ {c} : txs[d].student /\ txs[d].pc # "done"} |->
        [email |-> txs[d].email, nricPassportId |-> txs[d].nric]]

\* the insert on a table without unique indexes
TxStudentCreateUnindexed(c) ==
    /\ txs[c].pc = "createStudent"
    /\ txs' = [txs EXCEPT ![c].pc = "createEnrollment", ![c].student = TRUE]
    /\ UNCHANGED <<students, courses, enrollments, payments, reqs, csv, listing, ui>>

\* await tx.student.create: the insert waits for a transaction that holds an
\* uncommitted row with the same key, and fails with P2002 on a committed one
TxStudentCreate(c) ==
    /\ txs[c].pc = "createStudent"
    /\ ~NricIndexViolated(PendingStudents(c), txs[c].nric)
    /\ ~EmailTaken(PendingStudents(c), txs[c].email)
    /\ LET violated == {f \in {"nricPassportId", "email"} :
                          \/ f = "nricPassportId" /\ NricIndexViolated(students, txs[c].nric)
                          \/ f = "email" /\ EmailTaken(students, txs[c].email)}
       IN  IF violated = {}
           THEN txs' = [txs EXCEPT ![c].pc = "createEnrollment", ![c].student = TRUE]
           ELSE \E field \in violated :
                   TxAbort(c, IF field = "email" THEN EmailExistsError
                              ELSE NricExistsError)
    /\ UNCHANGED <<students, courses, enrollments, payments, reqs, csv, listing, ui>>

\* if (enrollment?.courseId) await tx.enrollment.create
TxEnrollmentCreate(c) ==
    /\ txs[c].pc = "createEnrollment"
    /\ IF txs[c].courseId = None
       THEN txs' = [txs EXCEPT ![c].pc = "createPayment"]
       ELSE IF ~CourseExists(txs[c].courseId)
       THEN TxAbort(c, "Foreign key constraint failed: courseId")
       ELSE txs' = [txs EXCEPT ![c].pc = "createPayment", ![c].enrollment = TRUE]
    /\ UNCHANGED <<students, courses, enrollments, payments, reqs, csv, listing, ui>>

\* if (payment?.amount && ...) await tx.payment.create, applyTo 'enrollment'
TxPaymentCreate(c) ==
    /\ txs[c].pc = "createPayment"
    /\ IF txs[c].amount = None
       THEN txs' = [txs EXCEPT ![c].pc = "commit"]
       ELSE IF txs[c].amount = Invalid
       THEN TxAbort(c, "Invalid payment amount. Please enter a valid number.")
       ELSE IF ~txs[c].enrollment
       THEN TxAbort(c, "Foreign key constraint failed: enrollmentId")
       ELSE txs' = [txs EXCEPT ![c].pc = "commit", ![c].payment = TRUE]
    /\ UNCHANGED <<students, courses, enrollments, payments, reqs, csv, listing, ui>>

\* the body returned: the transaction commits and the route answers 201
TxCommit(c) ==
    /\ txs[c].pc = "commit"
    /\ HasRoom(students, StudentIds)
    /\ txs[c].enrollment => HasRoom(enrollments, EnrollmentIds)
    /\ txs[c].payment => HasRoom(payments, PaymentIds)
    /\ LET sid == FreshId(students, StudentIds)
           eid == FreshId(enrollments, EnrollmentIds)
           pid == FreshId(payments, PaymentIds)
       IN  /\ students' = Insert(students, sid,
                  [email |-> txs[c].email, nricPassportId |-> txs[c].nric])
           /\ enrollments' = IF txs[c].enrollment
                             THEN Insert(enrollments, eid,
                                      [studentId |-> sid, courseId |-> txs[c].courseId,
                                       status |-> "ACTIVE"])
                             ELSE enrollments
           /\ payments' = IF txs[c].payment
                          THEN Insert(payments, pid,
                                   [studentId |-> sid, enrollmentId |-> eid,
                                    amount |-> txs[c].amount])
                          ELSE payments
           /\ txs' = [txs EXCEPT ![c].pc = "done", ![c].status = 201,
                                 ![c].created = sid]
    /\ UNCHANGED <<courses, reqs, csv, listing, ui>>

\* An open course and no students: the state after POST /courses.
InitTx ==
    /\ students = <<>>
    /\ courses = [i \in LedgerCourseIds |->
                     [name |-> <<"M", "a">>, price |-> 7, isActive |-> TRUE]]
    /\ enrollments = <<>>
    /\ payments = <<>>
    /\ reqs = [c \in Clients |-> Idle]
    /\ csv = NoUpload
    /\ listing = NoListing
    /\ txs = NoTxs
    /\ ui = NoPage

NextTx ==
    \/ \E c \in Clients, email \in Emails, nric \in Nrics,
          courseId \in CourseIds \cup {None}, amount \in {None, Invalid, 1} :
          TxBegin(c, email, nric, courseId, amount)
    \/ \E c \in Clients : TxFindFirst(c)
    \/ \E c \in Clients : TxStudentCreate(c)
    \/ \E c \in Clients : TxEnrollmentCreate(c)
    \/ \E c \in Clients : TxPaymentCreate(c)
    \/ \E c \in Clients : TxCommit(c)

SpecTx == InitTx /\ [][NextTx]_vars


(***************************************************************************)
(* POST /upload/csv-preview: the uploaded file is parsed row by row, each  *)
(* row lands in results or in errors, and the counts are sent at the end.  *)
(***************************************************************************)
MinNameLength == 2
MinPhoneLength == 10

Digits(n) == [i \in 1..n |-> "1"]

\* the cells of a row; an empty cell and a missing column are both falsy
CsvNames == {<<>>, <<"a", "b">>, <<" ", "a", " ">>}
CsvEmails == {<<>>, <<"a", "b">>, <<"A", "@", "x">>}
CsvPhones == {<<>>, Digits(MinPhoneLength), <<" ">> \o Digits(MinPhoneLength - 1) \o <<" ">>}
CsvRows == [name : CsvNames, email : CsvEmails, phone : CsvPhones]
CsvFiles == UNION {[1..n -> CsvRows] : n \in 0..MaxRows}

\* the callback, had it measured the cells as they came
ParseRowUntrimmed(data) ==
    IF data.name = <<>> \/ data.email = <<>> \/ data.phone = <<>>
    THEN [error |-> "Missing required fields (name, email, phone)", data |-> data]
    ELSE LET cleanedData == [name |-> trim(data.name),
                             email |-> toLowerCase(trim(data.email)),
                             phone |-> trim(data.phone)]
         IN  IF Len(data.name) < MinNameLength
             THEN [error |-> "Name must be at least 2 characters", data |-> cleanedData]
             ELSE IF ~includes(cleanedData.email, "@")
             THEN [error |-> "Invalid email format", data |-> cleanedData]
             ELSE IF Len(data.phone) < MinPhoneLength
             THEN [error |-> "Phone number too short", data |-> cleanedData]
             ELSE [error |-> "", data |-> cleanedData]

\* parseCSV's .on('data') callback: the error it records for a row ("" when
\* the row is pushed to results) and the data it keeps
ParseRow(data) ==
    IF data.name = <<>> \/ data.email = <<>> \/ data.phone = <<>>
    THEN [error |-> "Missing required fields (name, email, phone)", data |-> data]
    ELSE LET cleanedData == [name |-> trim(data.name),
                             email |-> toLowerCase(trim(data.email)),
                             phone |-> trim(data.phone)]
         IN  IF Len(cleanedData.name) < MinNameLength
             THEN [error |-> "Name must be at least 2 characters", data |-> cleanedData]
             ELSE IF ~includes(cleanedData.email, "@")
             THEN [error |-> "Invalid email format", data |-> cleanedData]
             ELSE IF Len(cleanedData.phone) < MinPhoneLength
             THEN [error |-> "Phone number too short", data |-> cleanedData]
             ELSE [error |-> "", data |-> cleanedData]

\* the request arrives: without a file it is answered at once
CsvPreview ==
    /\ csv.pc = "upload"
    /\ csv' = IF ~csv.file
              THEN [csv EXCEPT !.pc = "done",
                               !.response = [status |-> 400, error |-> "No file uploaded"]]
              ELSE [csv EXCEPT !.pc = "parse"]
    /\ UNCHANGED <<students, courses, enrollments, payments, reqs, listing, txs, ui>>

\* .on('data')
CsvData ==
    /\ csv.pc = "parse"
    /\ csv.next <= Len(csv.rows)
    /\ LET parsed == ParseRow(csv.rows[csv.next])
       IN  csv' = IF parsed.error # ""
                  THEN [csv EXCEPT !.next = @ + 1,
                           !.errors = Append(@, [row |-> Len(csv.results) + 1,
                                                 error |-> parsed.error,
                                                 data |-> parsed.data])]
                  ELSE [csv EXCEPT !.next = @ + 1, !.results = Append(@, parsed.data)]
    /\ UNCHANGED <<students, courses, enrollments, payments, reqs, listing, txs, ui>>

\* .on('end'), then the response of the route
CsvEnd ==
    /\ csv.pc = "parse"
    /\ csv.next > Len(csv.rows)
    /\ csv' = [csv EXCEPT !.pc = "done",
                  !.response = [status |-> 200,
                                totalRows |-> Len(csv.results) + Len(csv.errors),
                                validRows |-> Len(csv.results),
                                errorRows |-> Len(csv.errors)]]
    /\ UNCHANGED <<students, courses, enrollments, payments, reqs, listing, txs, ui>>

InitCsv ==
    /\ students = <<>>
    /\ courses = <<>>
    /\ enrollments = <<>>
    /\ payments = <<>>
    /\ reqs = [c \in Clients |-> Idle]
    /\ listing = NoListing
    /\ txs = NoTxs
    /\ ui = NoPage
    /\ \E file \in BOOLEAN, rows \in CsvFiles :
          /\ ~file => rows = <<>>
          /\ csv = [NoUpload EXCEPT !.pc = "upload", !.file = file, !.rows = rows]

NextCsv == CsvPreview \/ CsvData \/ CsvEnd

SpecCsv == InitCsv /\ [][NextCsv]_vars

(***************************************************************************)
(* GET /payments?studentId=&page=&limit=: a client pages through the list  *)
(* of a database that does not change meanwhile.  A payment row carries    *)
(* its date here, the column the list is ordered by.                       *)
(***************************************************************************)
Dates == {1, 2}
Limits == 1..MaxLimit

Min(a, b) == IF a <= b THEN a ELSE b

\* Math.ceil(total / limit)
Ceil(total, limit) ==
    IF total % limit = 0 THEN total \div limit ELSE (total \div limit) + 1

\* where: if (studentId) where.studentId = studentId
Where(studentId) ==
    {p \in DOMAIN payments : studentId # None => payments[p].studentId = studentId}

\* where.date after the two assignments
\*     if (startDate) where.date = { gte: new Date(startDate) };
\*     if (endDate) where.date = { lte: new Date(endDate) };
\* the second replaces the object the first has set
WhereDate(startDate, endDate) ==
    IF endDate # None THEN [gte |-> None, lte |-> endDate]
    ELSE [gte |-> startDate, lte |-> None]

\* the rows findMany({ where }) and count({ where }) select
Matching(studentId, startDate, endDate) ==
    LET date == WhereDate(startDate, endDate)
    IN  {p \in Where(studentId) :
            /\ date.gte # None => payments[p].date >= date.gte
            /\ date.lte # None => payments[p].date <= date.lte}

\* orderBy: { date: 'desc' }: the rows in an order of descending date.  The
\* database leaves the order of rows of equal date open, and it may differ
\* from one LIMIT/OFFSET query to the next.
FindManyOrders(ids) ==
    {order \in [1..Cardinality(ids) -> ids] :
        /\ \A i, j \in 1..Cardinality(ids) : i # j => order[i] # order[j]
        /\ \A i, j \in 1..Cardinality(ids) :
              i < j => payments[order[i]].date >= payments[order[j]].date}

\* the response: findMany({ where, orderBy, skip, take }) over the rows as
\* the database ordered them for this query, and count({ where })
GetPaymentsResult(studentId, startDate, endDate, page, limit, order) ==
    LET skip  == (page - 1) * limit
        total == Cardinality(Matching(studentId, startDate, endDate))
    IN  [payments |-> SubSeq(order, skip + 1, Min(skip + limit, total)),
         pagination |-> [page |-> page, limit |-> limit, total |-> total,
                         pages |-> Ceil(total, limit)]]

\* the client asks for page 1
ListFirst(studentId, startDate, endDate, limit) ==
    /\ listing.pc = "idle"
    /\ \E order \in FindManyOrders(Matching(studentId, startDate, endDate)) :
          LET result == GetPaymentsResult(studentId, startDate, endDate, 1, limit,
                                          order)
          IN  listing' = [pc |-> IF result.pagination.pages <= 1 THEN "done"
                                 ELSE "paging",
                          studentId |-> studentId, startDate |-> startDate,
                          endDate |-> endDate, limit |-> limit,
                          total |-> result.pagination.total,
                          pages |-> result.pagination.pages,
                          data |-> <<result.payments>>]
    /\ UNCHANGED <<students, courses, enrollments, payments, reqs, csv, txs, ui>>

\* the client asks for the page after the last one it has
ListNext ==
    /\ listing.pc = "paging"
    /\ \E order \in FindManyOrders(Matching(listing.studentId, listing.startDate,
                                              listing.endDate)) :
          LET page   == Len(listing.data) + 1
              result == GetPaymentsResult(listing.studentId, listing.startDate,
                                          listing.endDate, page, listing.limit, order)
          IN  listing' = [listing EXCEPT
                              !.pc = IF page >= result.pagination.pages THEN "done"
                                     ELSE "paging",
                              !.data = Append(@, result.payments)]
    /\ UNCHANGED <<students, courses, enrollments, payments, reqs, csv, txs, ui>>

\* two students, each enrolled in the one course, and up to MaxListed
\* payments of one cent
InitList ==
    /\ students = [i \in StudentIds |->
                      [email |-> IF i = 1 THEN <<"a", "@", "x">> ELSE <<"b", "@", "x">>,
                       nricPassportId |-> Absent]]
    /\ courses = [i \in LedgerCourseIds |->
                     [name |-> <<"M", "a">>, price |-> 7, isActive |-> TRUE]]
    /\ enrollments = [i \in StudentIds |->
                         [studentId |-> i, courseId |-> 1, status |-> "ACTIVE"]]
    /\ \E n \in 0..MaxListed :
          payments \in [1..n -> [studentId : StudentIds, enrollmentId : StudentIds,
                                 amount : {1}, date : Dates]]
    /\ \A p \in DOMAIN payments : payments[p].enrollmentId = payments[p].studentId
    /\ reqs = [c \in Clients |-> Idle]
    /\ csv = NoUpload
    /\ listing = NoListing
    /\ txs = NoTxs
    /\ ui = NoPage

NextList ==
    \/ \E studentId \in StudentIds \cup {None}, startDate \in Dates \cup {None},
          endDate \in Dates \cup {None}, limit \in Limits :
          ListFirst(studentId, startDate, endDate, limit)
    \/ ListNext

SpecList == InitList /\ [][NextList]_vars

(***************************************************************************)
(* The enrollment desk: two students and an open course, and the requests  *)
(* that write enrollments and record payments against them.                *)
(***************************************************************************)
InitDesk ==
    /\ students = [i \in StudentIds |->
                      [email |-> IF i = 1 THEN <<"a", "@", "x">> ELSE <<"b", "@", "x">>,
                       nricPassportId |-> Absent]]
    /\ courses = [i \in LedgerCourseIds |->
                     [name |-> <<"M", "a">>, price |-> 7, isActive |-> TRUE]]
    /\ enrollments = <<>>
    /\ payments = <<>>
    /\ reqs = [c \in Clients |-> Idle]
    /\ csv = NoUpload
    /\ listing = NoListing
    /\ txs = NoTxs
    /\ ui = NoPage

NextDesk ==
    \/ \E s \in StudentIds, c \in LedgerCourseIds, st \in ReqStatuses \cup {Absent} :
          PostEnrollment(s, c, st)
    \/ \E id \in EnrollmentIds, s \in StudentIds, c \in LedgerCourseIds,
          st \in ReqStatuses \cup {Absent} : PutEnrollment(id, s, c, st)
    \/ \E id \in EnrollmentIds, st \in ReqStatuses : PatchEnrollmentStatus(id, st)
    \/ \E s \in StudentIds, e \in EnrollmentIds, a \in Amounts : PostPayment(s, e, a)

SpecDesk == InitDesk /\ [][NextDesk]_vars

(***************************************************************************)
(* The cash desk: an open course, and the requests that write payments.    *)
(* full-create takes the amount as the client sends it.                    *)
(***************************************************************************)
InitPay ==
    /\ students = <<>>
    /\ courses = [i \in LedgerCourseIds |->
                     [name |-> <<"M", "a">>, price |-> 7, isActive |-> TRUE]]
    /\ enrollments = <<>>
    /\ payments = <<>>
    /\ reqs = [c \in Clients |-> Idle]
    /\ csv = NoUpload
    /\ listing = NoListing
    /\ txs = NoTxs
    /\ ui = NoPage

NextPay ==
    \/ \E s \in StudentIds, e \in EnrollmentIds, a \in Amounts : PostPayment(s, e, a)
    \/ \E id \in PaymentIds, s \in StudentIds, e \in EnrollmentIds, a \in Amounts :
          PutPayment(id, s, e, a)
    \/ \E email \in Emails, nric \in Nrics,
          amount \in Amounts \cup {None, Invalid, NegativeAmount} :
          FullCreate(email, nric, 1, Absent, amount, "enrollment", None)

SpecPay == InitPay /\ [][NextPay]_vars

(***************************************************************************)
(* The Students page in a browser: the "Add Student" form against          *)
(* POST /students/full-create.                                             *)
(***************************************************************************)
StudentCreated == "Student created successfully"

\* the "Add Student" button: setShowForm(true) mounts StudentForm, useForm()
\* starts with empty fields
OpenStudentForm ==
    /\ ~ui.showForm
    /\ ~ui.loading
    /\ ui' = [ui EXCEPT !.showForm = TRUE, !.form = EmptyForm]
    /\ UNCHANGED <<students, courses, enrollments, payments, reqs, csv, listing, txs>>

\* the user fills the fields in
TypeStudentForm(email, nric) ==
    /\ ui.showForm
    /\ ui' = [ui EXCEPT !.form = [email |-> email, nricPassportId |-> nric]]
    /\ UNCHANGED <<students, courses, enrollments, payments, reqs, csv, listing, txs>>

\* onCancel: the modal is unmounted and its fields with it
CancelStudentForm ==
    /\ ui.showForm
    /\ ui' = [ui EXCEPT !.showForm = FALSE, !.form = EmptyForm]
    /\ UNCHANGED <<students, courses, enrollments, payments, reqs, csv, listing, txs>>

\* handleSubmit(handleFormSubmit): the required fields pass, setLoading(true),
\* onSubmit(data) posts the payload
handleFormSubmit ==
    /\ ui.showForm
    /\ ~ui.loading
    /\ ui.form.email # <<>> /\ includes(ui.form.email, "@")
    /\ ui.form.nricPassportId # Absent
    /\ ui' = [ui EXCEPT !.loading = TRUE, !.data = ui.form]
    /\ UNCHANGED <<students, courses, enrollments, payments, reqs, csv, listing, txs>>

\* The route answers and the awaits resume.  handleCreateStudent: on 201
\* toast.success and setShowForm(false); on an error its catch block shows the
\* message and returns.  Either way the promise onSubmit returned resolves, so
\* handleFormSubmit goes on to reset() and setLoading(false).
FullCreateArrives ==
    /\ ui.loading
    /\ HasRoom(students, StudentIds)
    /\ LET result == FullCreateResult(ui.data.email, ui.data.nricPassportId, None,
                                      Absent, None, "enrollment", None)
       IN  /\ students' = result.students
           /\ enrollments' = result.enrollments
           /\ payments' = result.payments
           /\ ui' = IF result.status = 201
                    THEN [ui EXCEPT !.toast = StudentCreated, !.showForm = FALSE,
                                    !.form = EmptyForm, !.loading = FALSE]
                    ELSE [ui EXCEPT !.toast = result.error, !.form = EmptyForm,
                                    !.loading = FALSE]
    /\ UNCHANGED <<courses, reqs, csv, listing, txs>>

NextForm ==
    \/ OpenStudentForm
    \/ \E email \in Emails, nric \in Nrics : TypeStudentForm(email, nric)
    \/ CancelStudentForm
    \/ handleFormSubmit
    \/ FullCreateArrives

SpecForm == InitPay /\ [][NextForm]_vars

(***************************************************************************)
(* The Students page in a browser: the CSV import dialog against           *)
(* POST /upload/csv-preview and POST /students/bulk-import.                *)
(***************************************************************************)
PreviewLimit == 10
MaxFileRows == 11

GoodRow == [name |-> <<"a", "b">>, email |-> <<"A", "@", "x">>,
            phone |-> Digits(MinPhoneLength)]
BadRow == [name |-> <<>>, email |-> <<"A", "@", "x">>, phone |-> Digits(MinPhoneLength)]
DialogFiles == UNION {[1..n -> {GoodRow, BadRow}] : n \in 0..MaxFileRows}

\* parseCSV: the rows its callback pushes to results
RECURSIVE parseCSV(_, _, _)
parseCSV(rows, i, results) ==
    IF i > Len(rows) THEN results
    ELSE LET parsed == ParseRow(rows[i])
         IN  parseCSV(rows, i + 1, IF parsed.error = "" THEN Append(results, parsed.data)
                                   ELSE results)

\* results.slice(0, 10)
slice(results, end) == SubSeq(results, 1, IF Len(results) < end THEN Len(results) ELSE end)

\* the "Import CSV" button: setShowCSVImport(true) mounts CSVImport
OpenCSVImport ==
    /\ ~ui.showCSVImport
    /\ ~ui.importing
    /\ ui' = [ui EXCEPT !.showCSVImport = TRUE, !.step = "upload", !.file = <<>>,
                        !.uploading = FALSE, !.validRows = 0, !.preview = <<>>]
    /\ UNCHANGED <<students, courses, enrollments, payments, reqs, csv, listing, txs>>

\* handleFileChange, and handleFileUpload up to its await
handleFileChange(rows, isCsv) ==
    /\ ui.showCSVImport
    /\ ui.step = "upload"
    /\ ~ui.uploading
    /\ ui' = IF isCsv
             THEN [ui EXCEPT !.file = rows, !.uploading = TRUE]
             ELSE [ui EXCEPT !.toast = "Please select a valid CSV file"]
    /\ UNCHANGED <<students, courses, enrollments, payments, reqs, csv, listing, txs>>

\* csv-preview answers: setPreview(response.data), setStep('preview')
PreviewArrives ==
    /\ ui.uploading
    /\ LET results == parseCSV(ui.file, 1, <<>>)
       IN  ui' = [ui EXCEPT !.uploading = FALSE, !.step = "preview",
                            !.validRows = Len(results),
                            !.preview = slice(results, PreviewLimit)]
    /\ UNCHANGED <<students, courses, enrollments, payments, reqs, csv, listing, txs>>

\* resetForm ("Upload Different File")
resetForm ==
    /\ ui.showCSVImport
    /\ ui.step = "preview"
    /\ ~ui.importing
    /\ ui' = [ui EXCEPT !.file = <<>>, !.validRows = 0, !.preview = <<>>,
                        !.step = "upload"]
    /\ UNCHANGED <<students, courses, enrollments, payments, reqs, csv, listing, txs>>

\* the "Import N Students" button (disabled while loading or for N = 0):
\* handleImport passes preview.preview to handleCSVImport, which posts it
handleImport ==
    /\ ui.showCSVImport
    /\ ui.step = "preview"
    /\ ~ui.importing
    /\ ui.validRows # 0
    /\ ui' = [ui EXCEPT !.importing = TRUE, !.body = ui.preview]
    /\ UNCHANGED <<students, courses, enrollments, payments, reqs, csv, listing, txs>>

\* bulk-import answers: handleCSVImport closes the dialog on success and
\* shows the error otherwise; handleImport then goes back to the upload step
ImportArrives ==
    /\ ui.importing
    /\ LET result == BulkImportResult(ui.body)
       IN  /\ DOMAIN result.students \subseteq StudentIds
           /\ students' = result.students
           /\ ui' = [ui EXCEPT !.importing = FALSE, !.body = <<>>,
                        !.toast = IF result.status = 200
                                  THEN "Students imported successfully" ELSE result.error,
                        !.showCSVImport = (result.status # 200),
                        !.step = "upload", !.file = <<>>, !.validRows = 0,
                        !.preview = <<>>]
    /\ UNCHANGED <<courses, enrollments, payments, reqs, csv, listing, txs>>

NextImport ==
    \/ OpenCSVImport
    \/ \E rows \in DialogFiles, isCsv \in BOOLEAN : handleFileChange(rows, isCsv)
    \/ PreviewArrives
    \/ resetForm
    \/ handleImport
    \/ ImportArrives

SpecImport == InitPay /\ [][NextImport]_vars

(***************************************************************************)
(* Properties                                                              *)
(***************************************************************************)
\* C1: for every enrollment the sum of the amounts of its payments does not
\* exceed the price of its course.
C1_TotalPaidWithinPrice ==
    \A e \in DOMAIN enrollments : PaidCents(payments, e) <= PriceCents(e)

\* C2: a POST /payments whose amount, added to the sum already paid on the
\* enrollment, is above the course price is answered 400 and leaves the
\* payments and the enrollment as they were.
C2_OverpaymentRejected ==
    \A s \in StudentIds, e \in DOMAIN enrollments, a \in Amounts :
        PaidCents(payments, e) + a > PriceCents(e) =>
            LET result == PostPaymentResult(s, e, a)
            IN  /\ result.status = 400
                /\ result.payments = payments
                /\ result.enrollments = enrollments

\* a payment the price check itself turns down is on offer
C2_Witness ==
    \E s \in DOMAIN students, e \in DOMAIN enrollments, a \in Amounts :
        /\ PaidCents(payments, e) > 0
        /\ PaidCents(payments, e) <= PriceCents(e)
        /\ PaidCents(payments, e) + a > PriceCents(e)
        /\ PostPaymentResult(s, e, a).error = "Payment amount exceeds course price"

\* C3: an accepted POST /payments after which the enrollment's payments add
\* up to the course price or more leaves the enrollment COMPLETED.
C3_FullyPaidBecomesCompleted ==
    \A s \in StudentIds, e \in DOMAIN enrollments, a \in Amounts :
        LET result == PostPaymentResult(s, e, a)
        IN  (result.status = 201 /\ PaidCents(result.payments, e) >= PriceCents(e))
                => result.enrollments[e].status = "COMPLETED"

\* every request that got past the price check
Accepted(c) == reqs[c].pc \in {"create", "update"} \/ (reqs[c].pc = "done" /\ reqs[c].status = 201)

\* C4: each of two interleaved POST /payments passes the price check on the
\* payments it read itself (alone it fits within the price) ...
C4_AcceptedFitsAlone ==
    \A c \in Clients :
        Accepted(c) =>
            ~FGt(FAdd(reqs[c].totalPaid, parseFloat(reqs[c].amount)), reqs[c].coursePrice)

\* ... and both persist: the enrollment's payments add up to more than the price
C4_Witness ==
    \E e \in DOMAIN enrollments :
        /\ \A c \in Clients :
              reqs[c].pc = "done" /\ reqs[c].status = 201 /\ reqs[c].enrollmentId = e
        /\ \A c \in Clients : reqs[c].amount <= PriceCents(e)
        /\ PaidCents(payments, e) > PriceCents(e)

\* C5: a full-create whose body fails at any step answers with an error and
\* leaves no student, enrollment or payment row of the request behind.
C5_FullCreateAllOrNothing ==
    \A in \in FullCreateInputs :
        LET body   == FullCreateBody(in.email, in.nric, in.courseId, in.status,
                                     in.amount, in.applyTo, in.enrollmentId)
            result == FullCreateResult(in.email, in.nric, in.courseId, in.status,
                                       in.amount, in.applyTo, in.enrollmentId)
        IN  body.error # "" =>
                /\ result.status = 400
                /\ result.students = students
                /\ result.enrollments = enrollments
                /\ result.payments = payments

\* new Prisma.Decimal throws after the student and the enrollment were written
C5_Witness ==
    /\ HasRoom(students, StudentIds) /\ HasRoom(enrollments, EnrollmentIds)
    /\ \E in \in FullCreateInputs :
        LET body == FullCreateBody(in.email, in.nric, in.courseId, in.status,
                                   in.amount, in.applyTo, in.enrollmentId)
        IN  /\ body.error = "Invalid payment amount. Please enter a valid number."
            /\ body.students # students
            /\ body.enrollments # enrollments

\* C6: every site that reports a balance returns totalPaid equal to the sum
\* of the payment amounts, outstanding = max(0, price - totalPaid) >= 0 and
\* isFullyPaid exactly when totalPaid >= price.
C6_BalanceReports ==
    \A e \in DOMAIN enrollments :
        \A report \in {EnrollmentListPaymentStatus(e), EnrollmentDetailPaymentStatus(e),
                       StudentSummaryItem(e)} :
            /\ report.totalPaid = parseFloat(PaidCents(payments, e))
            /\ report.outstanding =
                   FMax0Sub(parseFloat(PriceCents(e)), report.totalPaid)
            /\ FGe(report.outstanding, Zero)
            /\ report.isFullyPaid <=> FGe(report.totalPaid, parseFloat(PriceCents(e)))

\* C7: a POST /payments of exactly the remaining balance of an ACTIVE
\* enrollment is accepted and persisted, the enrollment becomes COMPLETED
\* and its outstanding amount is 0.
C7_ExactRemainingCompletes ==
    \A s \in DOMAIN students, e \in DOMAIN enrollments, a \in Amounts :
        (/\ enrollments[e].studentId = s
         /\ enrollments[e].status = "ACTIVE"
         /\ a = PriceCents(e) - PaidCents(payments, e))
        => LET result == PostPaymentResult(s, e, a)
           IN  /\ result.status = 201
               /\ PaidCents(result.payments, e) = PriceCents(e)
               /\ result.enrollments[e].status = "COMPLETED"
               /\ FMax0Sub(parseFloat(PriceCents(e)), TotalPaid(result.payments, e)) = Zero

\* C8: DELETE /courses/:id of a course some enrollment references, whatever
\* its status, is answered 400 and changes nothing; a course is deleted only
\* when no enrollment references it.
C8_CourseWithEnrollmentsKept ==
    \A id \in CourseIds :
          LET result == DeleteCourseResult(id)
          IN  /\ (\E e \in DOMAIN enrollments : enrollments[e].courseId = id) =>
                    /\ result.status = 400
                    /\ result.courses = courses
                    /\ result.enrollments = enrollments
              /\ result.courses # courses =>
                    \A e \in DOMAIN enrollments : enrollments[e].courseId # id

\* a course whose only enrollments are not ACTIVE
C8_Witness ==
    \E id \in DOMAIN courses :
        /\ \E e \in DOMAIN enrollments : enrollments[e].courseId = id
        /\ \A e \in DOMAIN enrollments :
              enrollments[e].courseId = id => enrollments[e].status # "ACTIVE"
        /\ DeleteCourseResult(id).status = 400

\* C9: DELETE /enrollments/:id of an enrollment some payment references is
\* answered 400 and changes nothing; an enrollment is deleted only when no
\* payment references it.
C9_EnrollmentWithPaymentsKept ==
    \A id \in EnrollmentIds :
          LET result == DeleteEnrollmentResult(id)
          IN  /\ (\E p \in DOMAIN payments : payments[p].enrollmentId = id) =>
                    /\ result.status = 400
                    /\ result.enrollments = enrollments
                    /\ result.payments = payments
              /\ result.enrollments # enrollments =>
                    \A p \in DOMAIN payments : payments[p].enrollmentId # id

\* a COMPLETED enrollment with a payment
C9_Witness ==
    \E id \in DOMAIN enrollments :
        /\ \E p \in DOMAIN payments : payments[p].enrollmentId = id
        /\ enrollments[id].status = "COMPLETED"
        /\ DeleteEnrollmentResult(id).status = 400

\* C10: every payment's student is the student of the enrollment the
\* payment references.
C10_PaymentStudentIsEnrollmentStudent ==
    \A p \in DOMAIN payments :
        /\ payments[p].enrollmentId \in DOMAIN enrollments
        /\ payments[p].studentId = enrollments[payments[p].enrollmentId].studentId


\* C11 as stated: the payment of a full-create references the explicit
\* target whenever the payload names one, and otherwise the enrollment the
\* request created.
C11_ExplicitTargetWins ==
    \A in \in FullCreateInputs :
        LET result == FullCreateResult(in.email, in.nric, in.courseId, in.status,
                                       in.amount, in.applyTo, in.enrollmentId)
            pid    == FreshId(payments, PaymentIds)
            eid    == FreshId(enrollments, EnrollmentIds)
        IN  (in.amount \in Amounts /\ result.status = 201) =>
                result.payments[pid].enrollmentId =
                    IF in.enrollmentId # None THEN in.enrollmentId ELSE eid

\* C11 amended: the payment references the enrollment the request created
\* when applyTo is 'enrollment' and one was created; otherwise the explicit
\* target when the payload names one, and the created enrollment when not.
C11_PaymentTarget ==
    \A in \in FullCreateInputs :
        LET result == FullCreateResult(in.email, in.nric, in.courseId, in.status,
                                       in.amount, in.applyTo, in.enrollmentId)
            pid    == FreshId(payments, PaymentIds)
            eid    == FreshId(enrollments, EnrollmentIds)
        IN  (in.amount \in Amounts /\ result.status = 201) =>
                /\ pid \in DOMAIN result.payments /\ pid \notin DOMAIN payments
                /\ result.payments[pid].enrollmentId =
                       IF in.applyTo = "enrollment" /\ in.courseId # None THEN eid
                       ELSE IF in.enrollmentId # None THEN in.enrollmentId
                       ELSE eid

\* a request that creates an enrollment and records its payment against
\* another, existing one
C11_Witness ==
    \E in \in FullCreateInputs :
        LET result == FullCreateResult(in.email, in.nric, in.courseId, in.status,
                                       in.amount, in.applyTo, in.enrollmentId)
        IN  /\ in.amount \in Amounts /\ in.courseId # None
            /\ in.applyTo = "student" /\ in.enrollmentId \in DOMAIN enrollments
            /\ result.status = 201
            /\ result.payments[FreshId(payments, PaymentIds)].enrollmentId = in.enrollmentId

\* C14: a POST /payments for an enrollment that is not ACTIVE is answered
\* 400 and writes nothing, so a COMPLETED enrollment takes no payment.
C14_InactiveEnrollmentRejected ==
    \A s \in StudentIds, e \in DOMAIN enrollments, a \in Amounts :
        enrollments[e].status # "ACTIVE" =>
            LET result == PostPaymentResult(s, e, a)
            IN  /\ result.status = 400
                /\ result.payments = payments
                /\ result.enrollments = enrollments
                /\ result.students = students
                /\ result.courses = courses

\* an enrollment a payment completed, with room below the price again
C14_Witness ==
    \E e \in DOMAIN enrollments, a \in Amounts :
        /\ enrollments[e].status = "COMPLETED"
        /\ enrollments[e].studentId \in DOMAIN students
        /\ PaymentsOf(payments, e) # {}
        /\ PaidCents(payments, e) + a <= PriceCents(e)
        /\ PostPaymentResult(enrollments[e].studentId, e, a).error =
               "Cannot record payment for inactive enrollment"

\* C15: a POST /enrollments naming a missing student, a missing course or a
\* course that is not active is answered 400 and creates no enrollment.
C15_EnrollmentRejected ==
    \A s \in StudentIds, c \in CourseIds, st \in ReqStatuses \cup {Absent} :
        (s \notin DOMAIN students \/ c \notin DOMAIN courses \/ ~courses[c].isActive) =>
            LET result == PostEnrollmentResult(s, c, st)
            IN  /\ result.status = 400
                /\ result.enrollments = enrollments
                /\ result.students = students
                /\ result.courses = courses
                /\ result.payments = payments

\* an existing student asks for an existing course that is not active
C15_Witness ==
    \E s \in DOMAIN students, c \in DOMAIN courses :
        /\ ~courses[c].isActive
        /\ ~ExistingActiveEnrollment(s, c)
        /\ PostEnrollmentResult(s, c, Absent).error = "Course is not active"


\* a row is valid, in the words of the claim
RowIsValid(row) ==
    /\ row.name # <<>> /\ row.email # <<>> /\ row.phone # <<>>
    /\ Len(trim(row.name)) >= 2
    /\ includes(row.email, "@")
    /\ Len(trim(row.phone)) >= 10

\* C16: the preview counts every row of the file once, as valid or as
\* error: validRows + errorRows = totalRows, and validRows is the number of
\* rows with name, email and phone non-empty, a trimmed name of at least 2
\* characters, an '@' in the email and a trimmed phone of at least 10.
C16_PreviewCounts ==
    (csv.pc = "done" /\ csv.response.status = 200) =>
        /\ csv.response.validRows + csv.response.errorRows = csv.response.totalRows
        /\ csv.response.totalRows = Len(csv.rows)
        /\ csv.response.validRows =
               Cardinality({i \in 1..Len(csv.rows) : RowIsValid(csv.rows[i])})

\* a fully populated row and a row without email: validRows=1, errorRows=1
C16_Witness ==
    /\ csv.pc = "done"
    /\ Len(csv.rows) = 2
    /\ RowIsValid(csv.rows[1])
    /\ csv.rows[2].email = <<>> /\ csv.rows[2].name # <<>> /\ csv.rows[2].phone # <<>>
    /\ csv.response.validRows = 1
    /\ csv.response.errorRows = 1


\* C12: no two students have the same email, and no two students that have a
\* national ID have the same one, whichever request wrote them (POST
\* /students, PUT /students/:id, bulk-import, import-students, full-create).
C12_StudentsUnique ==
    \A i, j \in DOMAIN students :
        i # j =>
            /\ students[i].email # students[j].email
            /\ students[i].nricPassportId # Absent =>
                  students[i].nricPassportId # students[j].nricPassportId

\* two students with national IDs are registered, and a bulk-import row
\* whose address the lookup misses (it is written in upper case) is stopped
\* by the unique index
C12_Witness ==
    /\ Cardinality(DOMAIN students) = 2
    /\ \A i \in DOMAIN students : students[i].nricPassportId # Absent
    /\ EmailTaken(students, <<"a", "@", "x">>)
    /\ ~EmailTaken(students, <<"A", "@", "x">>)
    /\ LET result == BulkImportResult(<<[email |-> <<"A", "@", "x">>]>>)
       IN  result.imported = 0 /\ result.students = students


\* C13: no two courses have names that are equal ignoring case, whichever
\* request wrote them (POST /courses, PUT /courses/:id, toggle-status,
\* import-students with createEnrollments).
C13_CourseNamesUnique ==
    \A i, j \in DOMAIN courses :
        i # j => ~EqualsInsensitive(courses[i].name, courses[j].name)


\* the response has an error entry for row i
HasRowError(result, i) == \E k \in 1..Len(result.errors) : result.errors[k].row = i

\* the address of row i is registered when the loop reaches the row: a
\* student had it before the request, or an earlier row that was imported
DuplicateRow(emails, result, i) ==
    \/ EmailTaken(students, toLowerCase(trim(emails[i])))
    \/ \E j \in 1..(i - 1) :
          /\ emails[j] # <<>>
          /\ toLowerCase(trim(emails[j])) = toLowerCase(trim(emails[i]))
          /\ ~HasRowError(result, j)

\* what the claim says of the response to an import of the rows with these
\* addresses
DuplicatesReported(emails, result) ==
    LET created == DOMAIN result.students \ DOMAIN students
        failed  == {i \in 1..Len(emails) : HasRowError(result, i)}
    IN  /\ result.status = 200
        /\ \A i \in 1..Len(emails) : DuplicateRow(emails, result, i) => i \in failed
        /\ \A id \in DOMAIN students :
              id \in DOMAIN result.students /\ result.students[id] = students[id]
        /\ Cardinality(created) = Len(emails) - Cardinality(failed)
        /\ \A i \in 1..Len(emails) :
              i \notin failed =>
                 \E id \in created :
                    result.students[id].email = toLowerCase(trim(emails[i]))

ConflictMessages ==
    {"Email already registered",
     "Email address already exists. Please use a different email.",
     "NRIC/Passport ID already exists. Please use a different ID."}

\* a 400 that names the field and writes nothing
ConflictResponse(result) ==
    /\ result.status = 400
    /\ result.error \in ConflictMessages
    /\ result.students = students

\* C18: creating a student whose email or national ID is that of an existing
\* student is answered 400 with a message naming the field, and no student
\* is persisted, on POST /students and on POST /students/full-create.
C18_DuplicateStudentConflict ==
    /\ \A email \in RawEmails, nric \in Nrics \cup {Absent} :
          /\ isEmail(email)
          /\ \E i \in DOMAIN students :
                \/ students[i].email = normalizeEmail(email)
                \/ nric # Absent /\ students[i].nricPassportId = nric
          => ConflictResponse(PostStudentResult(email, nric))
    /\ \A email \in RawEmails, nric \in Nrics :
          (\E i \in DOMAIN students :
                students[i].email = email \/ students[i].nricPassportId = nric)
          => ConflictResponse(FullCreateResult(email, nric, None, Absent, None,
                                               "enrollment", None))


\* a 404 that writes nothing
NotFound(result) ==
    /\ result.status = 404
    /\ result.students = students /\ result.courses = courses
    /\ result.enrollments = enrollments /\ result.payments = payments

\* C19: a PUT, PATCH or DELETE addressed to an id that names no payment,
\* enrollment, course or student is answered 404 and changes no table (the
\* bodies are ones that pass the validators).
C19_MissingIdNotFound ==
    /\ \A id \in PaymentIds \ DOMAIN payments :
          /\ NotFound(DeletePaymentResult(id))
          /\ \A s \in StudentIds, e \in EnrollmentIds, a \in Amounts :
                NotFound(PutPaymentResult(id, s, e, a))
    /\ \A id \in EnrollmentIds \ DOMAIN enrollments :
          /\ NotFound(DeleteEnrollmentResult(id))
          /\ \A st \in ReqStatuses : NotFound(PatchEnrollmentStatusResult(id, st))
          /\ \A s \in StudentIds, c \in CourseIds, st \in ReqStatuses \cup {Absent} :
                NotFound(PutEnrollmentResult(id, s, c, st))
    /\ \A id \in CourseIds \ DOMAIN courses :
          /\ NotFound(DeleteCourseResult(id))
          /\ NotFound(ToggleCourseStatusResult(id))
          /\ \A name \in CourseNames, price \in Prices, isActive \in BOOLEAN :
                ValidCourseName(name) =>
                   NotFound(PutCourseResult(id, name, price, isActive))
    /\ \A id \in StudentIds \ DOMAIN students :
          /\ \A onDelete \in OnDelete : NotFound(DeleteStudentResult(id, onDelete))
          /\ \A email \in RawEmails, nric \in Nrics \cup {Absent} :
                isEmail(email) => NotFound(PutStudentResult(id, email, nric))


\* C20: for a fixed database state, filter and limit L >= 1 the list
\* reports pages = ceil(total / L), page p holds the records at positions
\* (p-1)*L+1 .. min(p*L, total) of the ordered result, and the pages
\* 1..pages together hold every matching record exactly once.
C20_PagesPartition ==
    listing.pc # "idle" =>
       LET matching == Matching(listing.studentId, listing.startDate, listing.endDate)
           L == listing.limit
       IN  /\ listing.total = Cardinality(matching)
           /\ listing.pages * L >= listing.total
           /\ listing.pages > 0 => (listing.pages - 1) * L < listing.total
           /\ \E order \in FindManyOrders(matching) :
                 \A p \in 1..Len(listing.data) :
                    listing.data[p] =
                       SubSeq(order, (p - 1) * L + 1, Min(p * L, listing.total))
           /\ listing.pc = "done" =>
                 \A id \in matching :
                    Cardinality({pk \in (1..Len(listing.data)) \X (1..L) :
                                    /\ pk[2] <= Len(listing.data[pk[1]])
                                    /\ listing.data[pk[1]][pk[2]] = id}) = 1


\* C22: whatever POST /enrollments, PUT /enrollments/:id, PATCH
\* /enrollments/:id/status and POST /payments requests were served, a
\* student has at most one ACTIVE enrollment in any given course.
C22_OneActiveEnrollment ==
    \A e1, e2 \in DOMAIN enrollments :
        /\ e1 # e2
        /\ enrollments[e1].studentId = enrollments[e2].studentId
        /\ enrollments[e1].courseId = enrollments[e2].courseId
        => ~(enrollments[e1].status = "ACTIVE" /\ enrollments[e2].status = "ACTIVE")


\* C24: in every reachable state an enrollment whose payments add up to the
\* price of its course or more (a course of price 0 included) has status
\* COMPLETED.
C24_FullyPaidIsCompleted ==
    \A e \in DOMAIN enrollments :
        PaidCents(payments, e) >= PriceCents(e) => enrollments[e].status = "COMPLETED"


\* C25: whatever POST /payments, PUT /payments/:id and POST
\* /students/full-create requests were served, every persisted payment has
\* an amount above 0.
C25_AmountsPositive == \A p \in DOMAIN payments : payments[p].amount > 0


\* what the claim says of the counters of an import of these addresses
ImportAccounted(emails, result) ==
    LET added  == DOMAIN result.students \ DOMAIN students
        rows   == 1..Len(emails)
        \* the rows that produced a student: a new student has their address
        \* and no entry in errors says otherwise
        made   == {i \in rows :
                     /\ ~HasRowError(result, i)
                     /\ \E id \in added :
                           result.students[id].email = toLowerCase(trim(emails[i]))}
    IN  /\ result.total = Len(emails)
        /\ DOMAIN students \subseteq DOMAIN result.students
        /\ result.imported = Cardinality(added)
        /\ Cardinality(made) = result.imported
        /\ \A k \in 1..Len(result.errors) : result.errors[k].row \in rows
        /\ \A i \in rows \ made :
              Cardinality({k \in 1..Len(result.errors) : result.errors[k].row = i}) = 1

InDateRange(studentId, startDate, endDate) ==
    {p \in Where(studentId) :
        /\ startDate # None => payments[p].date >= startDate
        /\ endDate # None => payments[p].date <= endDate}

\* C30: GET /payments returns exactly the payments (matching the other
\* filters) whose date d has startDate <= d <= endDate when both are given,
\* d >= startDate with startDate alone and d <= endDate with endDate alone:
\* the total counts them, each row returned is one of them, and a list that
\* fits on one page holds them all.
C30_DateRange ==
    listing.pc # "idle" =>
       LET expected == InDateRange(listing.studentId, listing.startDate,
                                   listing.endDate)
       IN  /\ listing.total = Cardinality(expected)
           /\ \A p \in 1..Len(listing.data) :
                 \A k \in 1..Len(listing.data[p]) : listing.data[p][k] \in expected
           /\ listing.pages <= 1 =>
                 {listing.data[1][k] : k \in 1..Len(listing.data[1])} = expected


\* the outstanding amount of the claim: over the ACTIVE enrollments, the sum
\* of max(0, price - sum of the enrollment's payments)
RECURSIVE SumOutstanding(_, _, _)
SumOutstanding(list, k, total) ==
    IF k > Len(list) THEN total
    ELSE SumOutstanding(list, k + 1,
             FAdd(total, FMax0Sub(parseFloat(PriceCents(list[k])),
                                  parseFloat(PaidCents(payments, list[k])))))

\* C29: for the same database state GET /dashboard/overview and GET
\* /dashboard/payments report the same outstanding amount, and it is the sum
\* over the ACTIVE enrollments of max(0, price - sum of the enrollment's
\* payments); enrollments of another status contribute nothing.
C29_DashboardOutstanding ==
    \A list1, list2 \in AnyOrders(ActiveEnrollments) :
        /\ OverviewOutstanding(list1) = PaymentsOutstanding(list2)
        /\ OverviewOutstanding(list1) = SumOutstanding(list1, 1, Zero)


\* C23: POST /payments is atomic over its two writes: a request that was
\* answered with an error has persisted no Payment, so every persisted Payment
\* belongs to a request that was answered 201 or is still between its two
\* writes; and a request answered 201 whose payment made the enrollment fully
\* paid has left the Enrollment COMPLETED.
C23_PaymentAtomic ==
    /\ Cardinality(DOMAIN payments) =
          Cardinality({c \in Clients : \/ reqs[c].pc = "update"
                                       \/ reqs[c].pc = "done" /\ reqs[c].status = 201})
    /\ \A c \in Clients :
          (/\ reqs[c].pc = "done"
           /\ reqs[c].status = 201
           /\ FullyPaid(FAdd(reqs[c].totalPaid, parseFloat(reqs[c].amount)),
                        reqs[c].coursePrice))
             => enrollments[reqs[c].enrollmentId].status = "COMPLETED"


\* the requests that were answered 201
Committed == {c \in Clients : txs[c].pc = "done" /\ txs[c].status = 201}

\* C21: under any interleaving of two concurrent POST /students/full-create
\* requests with the same national ID at most one commits a Student (and its
\* Enrollment and Payment); the other fails and persists nothing: the tables
\* hold the rows of the requests answered 201 and no others.
C21_OneCommitPerNric ==
    /\ \A c, d \in Committed : txs[c].nric = txs[d].nric => c = d
    /\ \A c, d \in Committed : txs[c].created = txs[d].created => c = d
    /\ DOMAIN students = {txs[c].created : c \in Committed}
    /\ Cardinality(DOMAIN enrollments) =
          Cardinality({c \in Committed : txs[c].courseId # None})
    /\ Cardinality(DOMAIN payments) =
          Cardinality({c \in Committed : txs[c].amount # None})
    /\ \A c \in Clients : txs[c].pc = "done" => txs[c].status \in {201, 400}

\* both requests carried the same national ID and both lookups found nothing;
\* one committed its three rows, the other was stopped at its insert
C21_Witness ==
    \E c, d \in Clients :
        /\ txs[c].pc = "done" /\ txs[c].status = 201
        /\ txs[c].courseId # None /\ txs[c].amount # None
        /\ txs[d].pc = "done" /\ txs[d].status = 400
        /\ txs[d].nric = txs[c].nric /\ txs[d].email # txs[c].email
        /\ txs[d].error = NricExistsError /\ ~txs[d].dup
        /\ Cardinality(DOMAIN students) = 1


\* C26: when the submission of the "Add Student" form fails, the form is
\* neither closed nor reset, the values the user entered are still in it; an
\* open form is emptied by nothing but a successful submission.
C26_FormKeptOnFailure ==
    [][/\ (ui.showForm /\ ui.loading /\ ~ui'.loading /\ ui'.toast # StudentCreated)
            => (ui'.showForm /\ ui'.form = ui.form)
       /\ (ui.showForm /\ ui'.showForm /\ ui.form # EmptyForm /\ ui'.form = EmptyForm)
            => ui'.toast = StudentCreated]_vars

\* C27: pressing "Import N Students" submits exactly the N = validRows valid
\* rows of the uploaded file, whatever the size of the file.
C27_ImportsAllValidRows ==
    ui.importing =>
        /\ ui.body = parseCSV(ui.file, 1, <<>>)
        /\ Len(ui.body) = ui.validRows

=============================================================================
